---- MODULE Spec2Model ----
(***************************************************************************)
(* Persistent cache engine of memcached-engines: the in-memory item store  *)
(* coupled to the SQLite read-through / write-behind / warm-up workers     *)
(* (src/src/persistent/sqlite.h, sqlite.cc, persistent_engine.h).          *)
(*                                                                         *)
(* items.c, assoc.c and slabs.c of the repository are not part of the      *)
(* sources at hand: item_alloc, item_get, item_unlink, item_release and    *)
(* store_item are modelled from the specification (spec.md 4.1, 4.2, 4.7). *)
(***************************************************************************)
EXTENDS Integers, Sequences, FiniteSets, TLC

\* ------------------------------------------------------------- bounds
MaxItems == 3      \* chunks of the slab arena (cache_size / chunk size)
MaxCalls == 2      \* caller requests (allocate, get, remove) of Spec, ReadSpec, WriteSpec
MaxStoreCalls == 3 \* caller requests of StoreSpec
MaxWarmCalls == 1  \* caller requests of WarmSpec
MaxArithCalls == 2 \* caller requests of ArithSpec
MaxWarmGets == 2   \* caller requests of WarmGetSpec
MaxEvictCalls == 2 \* caller requests of EvictSpec
MaxStartCalls == 1 \* caller requests of StartSpec
MaxFullCalls == 2  \* caller requests of MemFullSpec
MaxPending == 2    \* enqueues of one key awaiting the writer in PersistSpec
MaxLockOps == 3    \* caller requests of LockSpec
MaxDeleteCalls == 3 \* caller requests of DeleteSpec

Cookies == {1, 2}                 \* caller tokens, ordered as const void*
Keys == {1, 2}                    \* keys, ordered as std::string
Vals == {<<"a">>, <<"b">>}        \* value bytes a caller writes
FlagVals == {1}                   \* item flags a caller passes
ExpVals == {2}                    \* exptime a caller passes

ItemIds == 1..MaxItems
NoItem == 0
NoKey == 0

StoreOps == {"SET", "ADD", "REPLACE", "APPEND", "PREPEND"}

\* ------------------------------------------------------------- state
VARIABLES
    use_cas,    \* config.use_cas
    items,      \* slab arena: ItemIds -> hash_item (or a free chunk)
    casid,      \* last CAS id handed out
    evictions,  \* stats.evictions
    held,       \* item* a caller holds between allocate/get and release
    readq,      \* SQLiteReader::queue : cookie -> key
    writeq,     \* SQLiteWriter::queue : key -> hash_item*
    db,         \* table kv of the durable store: key -> row
    reader,     \* SQLiteReader::run position and locals
    writer,     \* SQLiteWriter::run position and locals
    warm,       \* SQLiteCacheWarmup::run position and locals
    resume,     \* the host's record per cookie: blocked on EWOULDBLOCK, or the
                \* status notify_io_complete passed
    quota,      \* caller requests explored (NoQuota: not counted)
    calls,      \* caller requests made so far
    owed,       \* per cookie: calls of SQLiteReader::enqueue not yet answered
                \* by a notify_io_complete
    owedE,      \* per cookie: PendingRead entries created and not yet answered
    wn,         \* per key: calls of SQLiteWriter::enqueue since its last dequeue
    wv,         \* per key: the value of the item last passed to enqueue
    arith,      \* per cookie: persistent_arithmetic's position, arguments and results
    rorder,     \* the cookies in SQLiteReader::queue, in the order of their insertion
    worder,     \* the keys in SQLiteWriter::queue, in the order of their insertion
    start,      \* persistent_initialize's position, the threads created, its result
    lk,         \* cache_lock, the two queue mutexes and each thread's position
                \* between their lock and unlock calls
    stl         \* the STL example engine: STLEngine::cache, the Item objects
                \* on the heap, the Item* each caller holds, the last return

vars == <<use_cas, items, casid, evictions, held, readq, writeq, db,
          reader, writer, warm, resume, quota, calls, owed, owedE, wn, wv,
          arith, start, worder, rorder, lk, stl>>

\* ------------------------------------------------------------- items
FreeChunk ==
    [used |-> FALSE, key |-> NoKey, val |-> <<>>, flags |-> 0, exptime |-> 0,
     with_cas |-> FALSE, cas |-> 0, refcount |-> 0, linked |-> FALSE]

\* item_get_cas: the CAS slot exists only with ITEM_WITH_CAS
item_get_cas(it) == IF it.with_cas THEN it.cas ELSE 0

\* item_set_cas that stores nothing
item_set_cas_dropped(it, v) == it

\* item_set_cas
item_set_cas(it, v) == IF it.with_cas THEN [it EXCEPT !.cas = v] ELSE it

\* assoc_find: the linked item of a key, or NoItem
assoc_find(its, k) ==
    IF \E i \in ItemIds : its[i].used /\ its[i].linked /\ its[i].key = k
    THEN CHOOSE i \in ItemIds : its[i].used /\ its[i].linked /\ its[i].key = k
    ELSE NoItem

\* do_item_get's reference on a found item
item_ref(its, i) ==
    IF i = NoItem THEN its ELSE [its EXCEPT ![i].refcount = @ + 1]

\* item_release: drop a reference; free the chunk of an unlinked item at 0
item_release(its, i) ==
    IF i = NoItem \/ ~its[i].used THEN its
    ELSE LET n == IF its[i].refcount > 0 THEN its[i].refcount - 1 ELSE 0
         IN  IF n = 0 /\ ~its[i].linked
             THEN [its EXCEPT ![i] = FreeChunk]
             ELSE [its EXCEPT ![i].refcount = n]

\* item_unlink: out of the hash index; freed at once when unreferenced
item_unlink(its, i) ==
    IF i = NoItem \/ ~its[i].used \/ ~its[i].linked THEN its
    ELSE IF its[i].refcount = 0
         THEN [its EXCEPT ![i] = FreeChunk]
         ELSE [its EXCEPT ![i].linked = FALSE]

\* item_link: into the hash index with a fresh CAS
item_link(its, i, c) ==
    [its EXCEPT ![i] = [item_set_cas(@, c) EXCEPT !.linked = TRUE]]

FreeIds(its) == {i \in ItemIds : ~its[i].used}
Evictable(its) == {i \in ItemIds : its[i].used /\ its[i].linked /\ its[i].refcount = 0}
MinOf(S) == CHOOSE x \in S : \A y \in S : x <= y

NewItem(k, v, f, e, wc) ==
    [used |-> TRUE, key |-> k, val |-> v, flags |-> f, exptime |-> e,
     with_cas |-> wc, cas |-> 0, refcount |-> 1, linked |-> FALSE]

\* item_alloc: a free chunk, else evict an unreferenced linked item.
\* Result: [its, id, ev]; id = NoItem when no chunk can be had.
\* victim: the linked unreferenced item the eviction picks (LRU tail).
item_alloc(its, k, v, f, e, wc, victim) ==
    IF FreeIds(its) # {}
    THEN LET i == MinOf(FreeIds(its))
         IN  [its |-> [its EXCEPT ![i] = NewItem(k, v, f, e, wc)], id |-> i, ev |-> 0]
    ELSE IF victim \in Evictable(its)
         THEN [its |-> [its EXCEPT ![victim] = NewItem(k, v, f, e, wc)],
               id |-> victim, ev |-> 1]
         ELSE [its |-> its, id |-> NoItem, ev |-> 0]

\* the victims an allocation may be handed: any unreferenced linked item
Victims(its) == IF Evictable(its) = {} THEN {NoItem} ELSE Evictable(its)

\* ------------------------------------------------------------- write queue
\* SQLiteWriter::enqueue that leaves a queued item of the same key in place
writer_enqueue_keepfirst(its, wq, i) ==
    LET k == its[i].key
    IN  IF wq[k] # NoItem
        THEN [its |-> its, wq |-> wq]
        ELSE [its |-> [its EXCEPT ![i].refcount = @ + 1],
              wq |-> [wq EXCEPT ![k] = i]]

\* SQLiteWriter::enqueue that replaces a queued item of the same key without
\* releasing it
writer_enqueue_norelease(its, wq, i) ==
    [its |-> [its EXCEPT ![i].refcount = @ + 1],
     wq |-> [wq EXCEPT ![its[i].key] = i]]

\* SQLiteWriter::enqueue: take a reference, supersede a queued item of the
\* same key (releasing it), queue the item
writer_enqueue(its, wq, i) ==
    LET k == its[i].key
        its1 == [its EXCEPT ![i].refcount = @ + 1]
        prev == wq[k]
    IN  [its |-> IF prev # NoItem THEN item_release(its1, prev) ELSE its1,
         wq |-> [wq EXCEPT ![k] = i]]

\* the order of insertion of the queued keys after a call that took the
\* queue from wq to wq2: a key that was not queued and now is goes last, a
\* key whose item was replaced keeps its place
Inserted(wo, wq, wq2) ==
    LET new == {k \in Keys : wq[k] = NoItem /\ wq2[k] # NoItem}
    IN  IF new = {} THEN wo ELSE Append(wo, CHOOSE k \in new : TRUE)

\* sqlite_io_store_item
sqlite_io_store_item(its, wq, i) == writer_enqueue(its, wq, i)

\* ------------------------------------------------------------- STL engine
MaxObjects == 4    \* Item objects alive at once: one per caller, one per key
MaxValue == 2      \* data bytes of a value the STL cache is given (APPEND, PREPEND)
MaxStlCalls == 6   \* calls into the STL engine in StlSpec

Objects == 1..MaxObjects
NoObject == 0
CasVals == {0, 1}                 \* CAS ids a caller passes to item_set_cas

\* the heap cell of no Item: never allocated, or deleted
Deleted == [key |-> NoKey, value |-> <<>>, flags |-> 0, exptime |-> 0, cas |-> 0]

\* what the last call into the engine returned
NoCall == [op |-> "none", ret |-> "none", key |-> NoKey]

\* STLEngine::STLEngine: cache() is the empty map
STLEngine ==
    [heap |-> [o \in Objects |-> Deleted],
     cache |-> [k \in Keys |-> NoObject],
     held |-> [c \in Cookies |-> NoObject],
     last |-> NoCall,
     calls |-> 0]

\* ------------------------------------------------------------- store_item
CRLF == <<"\r", "\n">>

\* the value without a trailing line terminator
Trim(v) ==
    IF Len(v) >= 2 /\ SubSeq(v, Len(v) - 1, Len(v)) = CRLF
    THEN SubSeq(v, 1, Len(v) - 2)
    ELSE v

\* get_cas_id: the next CAS id, drawn only for an item with a CAS slot
get_cas_id(cid, it) == IF it.with_cas THEN cid + 1 ELSE cid

\* store_item(engine, it, &cas, operation, persist): result
\* [its, casid, wq, res, cas, ev, id], id the item linked by a success
store_item(its, cid, wq, i, op, persist, victim) ==
    LET it == its[i]
        old == assoc_find(its, it.key)
        its1 == item_ref(its, old)
        fail(r) == [its |-> item_release(its1, old), casid |-> cid, wq |-> wq,
                    res |-> r, cas |-> 0, ev |-> 0, id |-> NoItem]
        done(itsL, id, ev) ==
            LET q == IF persist THEN sqlite_io_store_item(itsL, wq, id)
                     ELSE [its |-> itsL, wq |-> wq]
            IN  [its |-> q.its, casid |-> get_cas_id(cid, itsL[id]), wq |-> q.wq,
                 res |-> "SUCCESS",
                 cas |-> item_get_cas(itsL[id]), ev |-> ev, id |-> id]
    IN  IF op = "ADD" /\ old # NoItem THEN fail("NOT_STORED")
        ELSE IF op \in {"REPLACE", "APPEND", "PREPEND"} /\ old = NoItem
             THEN fail("KEY_ENOENT")
        ELSE IF old # NoItem /\ item_get_cas(it) # 0
                /\ item_get_cas(it) # item_get_cas(its[old])
             THEN fail("KEY_EEXISTS")
        ELSE IF op \in {"APPEND", "PREPEND"}
             THEN LET o == its[old]
                      nv == IF op = "APPEND" THEN Trim(o.val) \o it.val
                            ELSE it.val \o Trim(o.val)
                      a == item_alloc(its1, it.key, nv, o.flags, o.exptime,
                                      it.with_cas, victim)
                  IN  IF a.id = NoItem THEN fail("NOT_STORED")
                      ELSE LET l == item_link(item_unlink(a.its, old), a.id,
                                              get_cas_id(cid, it))
                               r == item_release(item_release(l, old), a.id)
                           IN  done(r, a.id, a.ev)
        ELSE LET l == item_link(item_unlink(its1, old), i, get_cas_id(cid, it))
             IN  done(item_release(l, old), i, 0)

\* ------------------------------------------------------------- read queue
\* SQLiteReader::enqueue: queue[cookie] = key
reader_enqueue(rq, c, k) == [rq EXCEPT ![c] = k]

\* the order of insertion of the queued cookies after a call that took the
\* queue from rq to rq2: a cookie that was not queued and now is goes last, a
\* cookie whose key was replaced keeps its place
Arrived(ro, rq, rq2) ==
    LET new == {c \in Cookies : rq[c] = NoKey /\ rq2[c] # NoKey}
    IN  IF new = {} THEN ro ELSE Append(ro, CHOOSE c \in new : TRUE)

\* sqlite_io_get_item
sqlite_io_get_item(rq, c, k) == reader_enqueue(rq, c, k)

\* persistent_get taking the branches of item_get's result the other way round
persistent_get_inverted(its, rq, c, k) ==
    LET i == assoc_find(its, k)
    IN  IF i = NoItem
        THEN [its |-> its, rq |-> rq, res |-> "SUCCESS", id |-> NoItem,
              queued |-> FALSE]
        ELSE [its |-> its, rq |-> sqlite_io_get_item(rq, c, k),
              res |-> "EWOULDBLOCK", id |-> NoItem, queued |-> TRUE]

\* persistent_get with the miss not handed to the reader
persistent_get_unqueued(its, rq, c, k) ==
    LET i == assoc_find(its, k)
    IN  IF i # NoItem
        THEN [its |-> item_ref(its, i), rq |-> rq, res |-> "SUCCESS", id |-> i,
              queued |-> FALSE]
        ELSE [its |-> its, rq |-> rq, res |-> "EWOULDBLOCK", id |-> NoItem,
              queued |-> FALSE]

\* persistent_get: result [its, rq, res, id, queued], queued telling whether
\* sqlite_io_get_item was called
persistent_get(its, rq, c, k) ==
    LET i == assoc_find(its, k)
    IN  IF i # NoItem
        THEN [its |-> item_ref(its, i), rq |-> rq, res |-> "SUCCESS", id |-> i,
              queued |-> FALSE]
        ELSE [its |-> its, rq |-> sqlite_io_get_item(rq, c, k),
              res |-> "EWOULDBLOCK", id |-> NoItem, queued |-> TRUE]

\* persistent_store passing OPERATION_SET whatever the operation
persistent_store_set(its, cid, wq, i, op, victim) ==
    store_item(its, cid, wq, i, "SET", TRUE, victim)

\* persistent_store: store_item with persist = true
persistent_store(its, cid, wq, i, op, victim) ==
    store_item(its, cid, wq, i, op, TRUE, victim)

\* persistent_item_allocate over an item_alloc that never evicts
persistent_item_allocate_noevict(its, k, v, f, e, wc, victim) ==
    LET a == item_alloc(its, k, v, f, e, wc, NoItem)
    IN  [its |-> a.its, id |-> a.id, ev |-> a.ev,
         res |-> IF a.id # NoItem THEN "SUCCESS" ELSE "ENOMEM"]

\* persistent_item_allocate: result [its, id, ev, res]
persistent_item_allocate(its, k, v, f, e, wc, victim) ==
    LET a == item_alloc(its, k, v, f, e, wc, victim)
    IN  [its |-> a.its, id |-> a.id, ev |-> a.ev,
         res |-> IF a.id # NoItem THEN "SUCCESS" ELSE "ENOMEM"]

\* persistent_item_release
persistent_item_release(its, i) == item_release(its, i)

\* persistent_item_delete releasing the item it found without item_unlink
persistent_item_delete_nounlink(its, rq, c, k, cas) ==
    LET g == persistent_get(its, rq, c, k)
    IN  [its |-> IF g.res = "SUCCESS" THEN item_release(g.its, g.id) ELSE g.its,
         rq |-> g.rq, res |-> "SUCCESS", queued |-> g.queued]

\* persistent_item_delete: result [its, rq, res]
persistent_item_delete(its, rq, c, k, cas) ==
    LET g == persistent_get(its, rq, c, k)
    IN  [its |-> IF g.res = "SUCCESS"
                 THEN item_release(item_unlink(g.its, g.id), g.id)
                 ELSE g.its,
         rq |-> g.rq, res |-> "SUCCESS", queued |-> g.queued]

\* ------------------------------------------------------------- arithmetic
DigitChars == <<"0", "1", "2", "3", "4", "5", "6", "7", "8", "9">>
Digit == {DigitChars[d] : d \in 1..10}
DigitChar(d) == DigitChars[d + 1]
DigitOf(ch) == CHOOSE d \in 0..9 : DigitChars[d + 1] = ch

\* snprintf("%llu"): the decimal digits of n, most significant first
RECURSIVE Digits(_)
Digits(n) ==
    IF n < 10 THEN <<DigitChar(n)>> ELSE Digits(n \div 10) \o <<DigitChar(n % 10)>>

\* snprintf writing the digits least significant first
NumberText_reversed(n) ==
    [j \in 1..Len(Digits(n)) |-> Digits(n)[Len(Digits(n)) + 1 - j]] \o CRLF

\* snprintf(buffer, "%llu\r\n", n)
NumberText(n) == Digits(n) \o CRLF

\* the digits a value starts with
RECURSIVE LeadingDigits(_)
LeadingDigits(v) ==
    IF v # <<>> /\ Head(v) \in Digit THEN <<Head(v)>> \o LeadingDigits(Tail(v))
    ELSE <<>>

\* the number a sequence of digits reads as
RECURSIVE DigitsValue(_)
DigitsValue(ds) ==
    IF ds = <<>> THEN 0
    ELSE 10 * DigitsValue(SubSeq(ds, 1, Len(ds) - 1)) + DigitOf(ds[Len(ds)])

\* strtoull on the item's data: NotANumber when it does not start with a digit
NotANumber == 0 - 1
ParseNumber(v) ==
    IF LeadingDigits(v) = <<>> THEN NotANumber ELSE DigitsValue(LeadingDigits(v))

\* add_delta on the linked item i the caller holds a reference to: parse,
\* add or subtract (not below 0), store the new text in a new item that
\* replaces the old one. Result [its, casid, wq, res, result, cas, ev]
add_delta(its, cid, wq, i, incr, delta, victim) ==
    LET old == its[i]
        n == ParseNumber(old.val)
        m == IF incr THEN n + delta ELSE IF delta > n THEN 0 ELSE n - delta
        fail(r) == [its |-> its, casid |-> cid, wq |-> wq, res |-> r,
                    result |-> 0, cas |-> 0, ev |-> 0]
    IN  IF n = NotANumber THEN fail("EINVAL")
        ELSE LET a == item_alloc(its, old.key, NumberText(m), old.flags,
                                 old.exptime, old.with_cas, victim)
             IN  IF a.id = NoItem THEN fail("ENOMEM")
                 ELSE LET r == store_item(a.its, cid, wq, a.id, "REPLACE", TRUE,
                                          NoItem)
                      IN  [its |-> item_release(r.its, a.id), casid |-> r.casid,
                           wq |-> r.wq, res |-> r.res, result |-> m,
                           cas |-> r.cas, ev |-> a.ev]

\* ------------------------------------------------------------- durable table
NoRow == <<>>

\* the row INSERT OR REPLACE binds for an item: flags, exptime, hash, value
RowOf(it) == <<it.flags, it.exptime, 0, it.val>>

\* sqlite3_column_*(statement, col): columns count from 0
sqlite3_column(row, col) == row[col + 1]

\* the durable table the engine starts on: a row for key 1 left by an
\* earlier run (flags 1, exptime 2, hash 0, value "a"), none for key 2
InitDb == [k \in Keys |-> IF k = 1 THEN <<1, 2, 0, <<"a">>>> ELSE NoRow]

\* a durable table with a row for every key
FullDb == [k \in Keys |-> <<1, 2, 0, <<"a">>>>]

\* SQLiteReader::createItem up to the allocation and the memcpy:
\* result [its, id, ev]
createItem_alloc(its, k, row, flagoffset, wc, victim) ==
    item_alloc(its, k, sqlite3_column(row, flagoffset + 2),
               sqlite3_column(row, flagoffset),
               sqlite3_column(row, flagoffset + 1), wc, victim)

\* SQLiteReader::createItem storing with OPERATION_SET
createItem_store_set(its, cid, wq, i) ==
    store_item(its, cid, wq, i, "SET", FALSE, NoItem)

\* SQLiteReader::createItem storing with persist = true
createItem_store_persist(its, cid, wq, i) ==
    store_item(its, cid, wq, i, "ADD", TRUE, NoItem)

\* SQLiteReader::createItem, the store: ADD, not persisted, result ignored
createItem_store(its, cid, wq, i) ==
    store_item(its, cid, wq, i, "ADD", FALSE, NoItem)

\* ------------------------------------------------------------- initial state
NoQuota == 0 - 1
NoHeld == [id |-> NoItem, st |-> "none", res |-> "none"]
NoArith == [pc |-> "idle", key |-> NoKey, incr |-> TRUE, create |-> FALSE,
            delta |-> 0, initial |-> 0, exptime |-> 0,
            res |-> "none", result |-> 0, cas |-> 0]
NoResume == [status |-> "none", key |-> NoKey]
ReaderIdle == [pc |-> "idle", cookie |-> 0, key |-> NoKey, id |-> NoItem,
               success |-> FALSE, found |-> FALSE]
WriterIdle == [pc |-> "idle", id |-> NoItem, n |-> 0, v |-> <<>>, ups |-> 0,
               err |-> FALSE]
WarmOff == [pc |-> "off", cur |-> 1, id |-> NoItem, ok |-> TRUE]
WarmScan == [pc |-> "scan", cur |-> 1, id |-> NoItem, ok |-> TRUE]

\* persistent_initialize has returned ENGINE_SUCCESS: reader and writer
\* threads created, the warm-up thread too where w is its scan
Running(w) ==
    [pc |-> "done", warmup |-> w.pc # "off", rinit |-> "ok", winit |-> "ok",
     threads |-> {"reader", "writer"}
                 \cup (IF w.pc # "off" THEN {"warmup"} ELSE {}),
     ret |-> "ENGINE_SUCCESS"]

\* the state create_instance and persistent_initialize leave
\* the threads that take locks: two callers of the engine and the two workers
Producers == {"c1", "c2"}
LockThreads == Producers \cup {"reader", "writer"}

\* the chunk a thread's allocation is served from
Chunks == {1, 2, 3}
Chunk(t) == IF t = "c1" THEN 1 ELSE IF t = "c2" THEN 2 ELSE 3

\* PTHREAD_MUTEX_INITIALIZER / pthread_mutex_init: no lock held, both queues
\* empty, the workers at the top of run
Unlocked ==
    [cache |-> "free", wmutex |-> "free", rmutex |-> "free",
     pc |-> [t \in LockThreads |-> IF t \in Producers THEN "idle" ELSE "lock"],
     ref |-> [i \in Chunks |-> 0],
     linked |-> NoItem, wq |-> NoItem, rq |-> {},
     it |-> [t \in LockThreads |-> NoItem],
     tmp |-> [t \in Producers |-> 0],
     cookie |-> "none", ops |-> 0]

Started ==
    /\ lk = Unlocked
    /\ stl = STLEngine
    /\ items = [i \in ItemIds |-> FreeChunk]
    /\ casid = 0
    /\ evictions = 0
    /\ held = [c \in Cookies |-> NoHeld]
    /\ readq = [c \in Cookies |-> NoKey]
    /\ writeq = [k \in Keys |-> NoItem]
    /\ reader = ReaderIdle
    /\ writer = WriterIdle
    /\ resume = [c \in Cookies |-> NoResume]
    /\ calls = 0
    /\ owed = [c \in Cookies |-> 0]
    /\ owedE = [c \in Cookies |-> 0]
    /\ wn = [k \in Keys |-> 0]
    /\ wv = [k \in Keys |-> <<>>]
    /\ worder = <<>>
    /\ rorder = <<>>
    /\ arith = [c \in Cookies |-> NoArith]

\* the default configuration: use_cas on, warmup off
Init ==
    /\ Started
    /\ use_cas = TRUE
    /\ db = InitDb
    /\ warm = WarmOff
    /\ start = Running(warm)
    /\ quota = MaxCalls

\* ------------------------------------------------------------- callers
Budget == quota = NoQuota \/ calls < quota
Counted == calls' = IF quota = NoQuota THEN calls ELSE calls + 1

\* a call of SQLiteReader::enqueue is owed one notify_io_complete
CountEnqueue(c, queued) ==
    /\ owed' = IF queued /\ quota # NoQuota THEN [owed EXCEPT ![c] = @ + 1] ELSE owed
    /\ owedE' = IF queued /\ quota # NoQuota /\ readq[c] = NoKey
                THEN [owedE EXCEPT ![c] = @ + 1] ELSE owedE

\* engine.allocate
Allocate(c, k, v, f, e) ==
    /\ held[c].st = "none"
    /\ Budget
    /\ \E victim \in Victims(items) :
         LET a == persistent_item_allocate(items, k, v, f, e, use_cas, victim)
         IN  /\ items' = a.its
             /\ evictions' = evictions + a.ev
             /\ held' = IF a.id # NoItem
                        THEN [held EXCEPT ![c] = [id |-> a.id, st |-> "alloc", res |-> a.res]]
                        ELSE held
    /\ resume' = [resume EXCEPT ![c] = NoResume]
    /\ Counted
    /\ UNCHANGED <<lk, stl, start, arith, use_cas, casid, readq, rorder, writeq, db, reader, writer, warm,
                   quota, owed, owedE, wn, wv, worder>>

\* what engine.store does for the item a token holds: the host sets the
\* expected CAS on the item (item_set_cas), then persistent_store
StoreResult(c, op, ecas, victim) ==
    LET i == held[c].id
        its0 == [items EXCEPT ![i] = item_set_cas(@, ecas)]
    IN  persistent_store(its0, casid, writeq, i, op, victim)

\* engine.store
Store(c, op, ecas) ==
    /\ held[c].st = "alloc"
    /\ \E victim \in Victims(items) :
         LET k == items[held[c].id].key
             r == StoreResult(c, op, ecas, victim)
         IN  /\ items' = r.its
             /\ casid' = r.casid
             /\ writeq' = r.wq
             /\ evictions' = evictions + r.ev
             /\ wn' = IF r.res = "SUCCESS" THEN [wn EXCEPT ![k] = @ + 1] ELSE wn
             /\ wv' = IF r.res = "SUCCESS" THEN [wv EXCEPT ![k] = r.its[r.id].val]
                      ELSE wv
             /\ worder' = Inserted(worder, writeq, r.wq)
             /\ held' = [held EXCEPT ![c].st = "stored", ![c].res = r.res]
    /\ UNCHANGED <<lk, stl, start, arith, use_cas, readq, rorder, db, reader, writer, warm, resume, quota, calls,
                   owed, owedE>>

\* engine.get
Get(c, k) ==
    /\ held[c].st = "none"
    /\ Budget
    /\ LET g == persistent_get(items, readq, c, k)
       IN  /\ items' = g.its
           /\ readq' = g.rq
           /\ rorder' = Arrived(rorder, readq, g.rq)
           /\ held' = IF g.id # NoItem
                      THEN [held EXCEPT ![c] = [id |-> g.id, st |-> "got", res |-> g.res]]
                      ELSE held
           /\ CountEnqueue(c, g.queued)
           /\ resume' = [resume EXCEPT ![c] =
                           IF g.res = "EWOULDBLOCK"
                           THEN [status |-> g.res, key |-> k] ELSE NoResume]
    /\ Counted
    /\ UNCHANGED <<lk, stl, start, arith, use_cas, casid, evictions, writeq, db, reader, writer, warm,
                   quota, wn, wv, worder>>

\* engine.remove
Delete(c, k, cas) ==
    /\ held[c].st = "none"
    /\ Budget
    /\ LET d == persistent_item_delete(items, readq, c, k, cas)
       IN  /\ items' = d.its
           /\ readq' = d.rq
           /\ rorder' = Arrived(rorder, readq, d.rq)
           /\ CountEnqueue(c, d.queued)
    /\ resume' = [resume EXCEPT ![c] = NoResume]
    /\ Counted
    /\ UNCHANGED <<lk, stl, start, arith, use_cas, casid, evictions, held, writeq, db, reader, writer,
                   warm, quota, wn, wv, worder>>

\* engine.release
Release(c) ==
    /\ held[c].st # "none"
    /\ items' = persistent_item_release(items, held[c].id)
    /\ held' = [held EXCEPT ![c] = NoHeld]
    /\ UNCHANGED <<lk, stl, start, arith, use_cas, casid, evictions, readq, rorder, writeq, db, reader, writer,
                   warm, resume, quota, calls, owed, owedE, wn, wv, worder>>

\* ------------------------------------------------------------- arithmetic
Deltas == {5}
Initials == {10}

\* engine.arithmetic is called
ArithCall(c, k, incr, create, delta, initial, e) ==
    /\ held[c].st = "none"
    /\ arith[c].pc \in {"idle", "done"}
    /\ Budget
    /\ arith' = [arith EXCEPT ![c] =
                   [NoArith EXCEPT !.pc = "lookup", !.key = k, !.incr = incr,
                                   !.create = create, !.delta = delta,
                                   !.initial = initial, !.exptime = e]]
    /\ Counted
    /\ UNCHANGED <<lk, stl, start, use_cas, items, casid, evictions, held, readq, rorder, writeq, db,
                   reader, writer, warm, resume, quota, owed, owedE, wn, wv, worder>>

\* persistent_arithmetic looking the key up with persistent_get, which hands a
\* miss to the read worker
ArithLookup_enqueue(c) ==
    /\ arith[c].pc = "lookup"
    /\ LET a == arith[c]
           i == assoc_find(items, a.key)
       IN  IF i # NoItem
           THEN \E victim \in Victims(item_ref(items, i)) :
                  LET d == add_delta(item_ref(items, i), casid, writeq, i,
                                     a.incr, a.delta, victim)
                      ok == d.res = "SUCCESS"
                  IN  /\ items' = item_release(d.its, i)
                      /\ casid' = d.casid
                      /\ writeq' = d.wq
                      /\ evictions' = evictions + d.ev
                      /\ wn' = IF ok THEN [wn EXCEPT ![a.key] = @ + 1] ELSE wn
                      /\ wv' = IF ok THEN [wv EXCEPT ![a.key] = NumberText(d.result)]
                               ELSE wv
                      /\ worder' = Inserted(worder, writeq, d.wq)
                      /\ arith' = [arith EXCEPT ![c].pc = "done", ![c].res = d.res,
                                                ![c].result = d.result,
                                                ![c].cas = d.cas]
           ELSE /\ arith' = IF a.create
                            THEN [arith EXCEPT ![c].pc = "create"]
                            ELSE [arith EXCEPT ![c].pc = "done",
                                               ![c].res = "KEY_ENOENT"]
                /\ readq' = sqlite_io_get_item(readq, c, a.key)
                /\ UNCHANGED <<lk, stl, items, casid, writeq, evictions, wn, wv, worder>>
    /\ IF assoc_find(items, arith[c].key) # NoItem THEN readq' = readq ELSE TRUE
    /\ UNCHANGED <<lk, stl, start, use_cas, held, rorder, db, reader, writer, warm, resume, quota,
                   calls, owed, owedE>>

\* persistent_arithmetic: item_get, then add_delta and item_release on a
\* hit, KEY_ENOENT on a miss without create
ArithLookup(c) ==
    /\ arith[c].pc = "lookup"
    /\ LET a == arith[c]
           i == assoc_find(items, a.key)
       IN  IF i # NoItem
           THEN \E victim \in Victims(item_ref(items, i)) :
                  LET d == add_delta(item_ref(items, i), casid, writeq, i,
                                     a.incr, a.delta, victim)
                      ok == d.res = "SUCCESS"
                  IN  /\ items' = item_release(d.its, i)
                      /\ casid' = d.casid
                      /\ writeq' = d.wq
                      /\ evictions' = evictions + d.ev
                      /\ wn' = IF ok THEN [wn EXCEPT ![a.key] = @ + 1] ELSE wn
                      /\ wv' = IF ok THEN [wv EXCEPT ![a.key] = NumberText(d.result)]
                               ELSE wv
                      /\ worder' = Inserted(worder, writeq, d.wq)
                      /\ arith' = [arith EXCEPT ![c].pc = "done", ![c].res = d.res,
                                                ![c].result = d.result,
                                                ![c].cas = d.cas]
           ELSE /\ arith' = IF a.create
                            THEN [arith EXCEPT ![c].pc = "create"]
                            ELSE [arith EXCEPT ![c].pc = "done",
                                               ![c].res = "KEY_ENOENT"]
                /\ UNCHANGED <<lk, stl, items, casid, writeq, evictions, wn, wv, worder>>
    /\ UNCHANGED <<lk, stl, start, use_cas, held, readq, rorder, db, reader, writer, warm, resume, quota,
                   calls, owed, owedE>>

\* persistent_arithmetic, the miss with create: item_alloc, the text of
\* initial, store_item(ADD, persist); KEY_EEXISTS releases the item and
\* starts the call again, any other result is returned with result = initial
ArithCreate(c) ==
    /\ arith[c].pc = "create"
    /\ \E victim \in Victims(items) :
         LET a == arith[c]
             al == item_alloc(items, a.key, NumberText(a.initial), 0, a.exptime,
                              use_cas, victim)
             r == store_item(al.its, casid, writeq, al.id, "ADD", TRUE, NoItem)
             ok == r.res = "SUCCESS"
         IN  IF al.id = NoItem
             THEN /\ arith' = [arith EXCEPT ![c].pc = "done", ![c].res = "ENOMEM"]
                  /\ UNCHANGED <<lk, stl, items, casid, writeq, evictions, wn, wv, worder>>
             ELSE /\ items' = item_release(r.its, al.id)
                  /\ casid' = r.casid
                  /\ writeq' = r.wq
                  /\ evictions' = evictions + al.ev
                  /\ wn' = IF ok THEN [wn EXCEPT ![a.key] = @ + 1] ELSE wn
                  /\ wv' = IF ok THEN [wv EXCEPT ![a.key] = NumberText(a.initial)]
                           ELSE wv
                  /\ worder' = Inserted(worder, writeq, r.wq)
                  /\ arith' = IF r.res = "KEY_EEXISTS"
                              THEN [arith EXCEPT ![c].pc = "lookup"]
                              ELSE [arith EXCEPT
                                      ![c].pc = "done", ![c].res = r.res,
                                      ![c].result = a.initial,
                                      ![c].cas = item_get_cas(r.its[al.id])]
    /\ UNCHANGED <<lk, stl, start, use_cas, held, readq, rorder, db, reader, writer, warm, resume, quota,
                   calls, owed, owedE>>

\* ------------------------------------------------------------- read worker
MinQueued(rq) == MinOf({c \in Cookies : rq[c] # NoKey})

\* SQLiteReader::run without queue.erase(queue.begin())
ReaderDequeue_noerase ==
    /\ reader.pc = "idle"
    /\ \E c \in Cookies : readq[c] # NoKey
    /\ LET c == MinQueued(readq)
       IN  reader' = [ReaderIdle EXCEPT !.pc = "read", !.cookie = c,
                                        !.key = readq[c]]
    /\ UNCHANGED <<lk, stl, start, arith, use_cas, items, casid, evictions, held, readq, rorder, writeq, db,
                   writer, warm, resume, quota, calls, owed, owedE, wn, wv, worder>>

\* SQLiteReader::run: queue.begin() is taken and erased under the lock
ReaderDequeue ==
    /\ reader.pc = "idle"
    /\ \E c \in Cookies : readq[c] # NoKey
    /\ LET c == MinQueued(readq)
       IN  /\ reader' = [ReaderIdle EXCEPT !.pc = "read", !.cookie = c,
                                           !.key = readq[c]]
           /\ readq' = [readq EXCEPT ![c] = NoKey]
           /\ rorder' = SelectSeq(rorder, LAMBDA x : x # c)
    /\ UNCHANGED <<lk, stl, start, arith, use_cas, items, casid, evictions, held, writeq, db, writer,
                   warm, resume, quota, calls, owed, owedE, wn, wv, worder>>

\* what sqlite3_step of the reader's SELECT may return for a key
StepResults(k) == IF db[k] # NoRow THEN {"ROW", "ERROR"} ELSE {"DONE", "ERROR"}

\* SQLiteReader::readItem down to createItem's allocation
ReaderRead ==
    /\ reader.pc = "read"
    /\ \E rc \in StepResults(reader.key), victim \in Victims(items) :
         IF rc = "ROW"
         THEN LET a == createItem_alloc(items, reader.key, db[reader.key], 1,
                                        use_cas, victim)
              IN  /\ items' = a.its
                  /\ evictions' = evictions + a.ev
                  /\ reader' = IF a.id # NoItem
                               THEN [reader EXCEPT !.pc = "store", !.id = a.id,
                                                   !.found = TRUE]
                               ELSE [reader EXCEPT !.pc = "notify",
                                                   !.success = FALSE,
                                                   !.found = TRUE]
         ELSE /\ reader' = [reader EXCEPT !.pc = "notify", !.success = FALSE]
              /\ UNCHANGED <<lk, stl, start, arith, items, evictions>>
    /\ UNCHANGED <<lk, stl, start, arith, use_cas, casid, held, readq, rorder, writeq, db, writer, warm, resume,
                   quota, calls, owed, owedE, wn, wv, worder>>

\* SQLiteReader::createItem: store_item(ADD), return true; the item pointer
\* goes out of scope
ReaderStore ==
    /\ reader.pc = "store"
    /\ LET r == createItem_store(items, casid, writeq, reader.id)
       IN  /\ items' = r.its
           /\ casid' = r.casid
           /\ writeq' = r.wq
    /\ reader' = [reader EXCEPT !.pc = "notify", !.success = TRUE, !.id = NoItem]
    /\ UNCHANGED <<lk, stl, start, arith, use_cas, evictions, held, readq, rorder, db, writer, warm, resume,
                   quota, calls, owed, owedE, wn, wv, worder>>

\* server.notify_io_complete(cookie, success ? SUCCESS : KEY_ENOENT)
ReaderNotify ==
    /\ reader.pc = "notify"
    /\ resume' = [resume EXCEPT ![reader.cookie] =
                    [status |-> IF reader.success THEN "SUCCESS" ELSE "KEY_ENOENT",
                     key |-> reader.key]]
    /\ owed' = IF quota # NoQuota THEN [owed EXCEPT ![reader.cookie] = @ - 1]
               ELSE owed
    /\ owedE' = IF quota # NoQuota THEN [owedE EXCEPT ![reader.cookie] = @ - 1]
                ELSE owedE
    /\ reader' = ReaderIdle
    /\ UNCHANGED <<lk, stl, start, arith, use_cas, items, casid, evictions, held, readq, rorder, writeq, db,
                   writer, warm, quota, calls, wn, wv, worder>>

\* ------------------------------------------------------------- write worker
\* SQLiteWriter::run: queue.begin() is taken and erased under the lock
WriterDequeue ==
    /\ writer.pc = "idle"
    /\ \E k \in Keys : writeq[k] # NoItem
    /\ LET k == MinOf({x \in Keys : writeq[x] # NoItem})
       IN  /\ writer' = [pc |-> "store", id |-> writeq[k], n |-> wn[k],
                         v |-> wv[k], ups |-> 0, err |-> FALSE]
           /\ writeq' = [writeq EXCEPT ![k] = NoItem]
           /\ wn' = [wn EXCEPT ![k] = 0]
           /\ wv' = [wv EXCEPT ![k] = <<>>]
           /\ worder' = SelectSeq(worder, LAMBDA x : x # k)
    /\ UNCHANGED <<lk, stl, start, arith, use_cas, items, casid, evictions, held, readq, rorder, db, reader,
                   warm, resume, quota, calls, owed, owedE>>

\* the results of sqlite3_step on the INSERT OR REPLACE: done, rejected by a
\* constraint, busy (an error that passes), full (an error that stays: once
\* the step has failed so, every later step of the statement fails so)
UpsertResults == {"DONE", "CONSTRAINT", "BUSY", "FULL"}

\* SQLiteWriter::storeItem: one sqlite3_step of INSERT OR REPLACE;
\* any result but SQLITE_DONE and SQLITE_CONSTRAINT steps again
WriterStore(rc) ==
    /\ writer.pc = "store"
    /\ writer.err => rc = "FULL"
    /\ LET it == items[writer.id]
       IN  db' = IF rc = "DONE" THEN [db EXCEPT ![it.key] = RowOf(it)] ELSE db
    /\ writer' = IF rc = "DONE"
                 THEN [writer EXCEPT !.pc = "release", !.ups = @ + 1]
                 ELSE IF rc = "CONSTRAINT" THEN [writer EXCEPT !.pc = "release"]
                 ELSE IF rc = "FULL" THEN [writer EXCEPT !.err = TRUE]
                 ELSE writer
    /\ UNCHANGED <<lk, stl, start, arith, use_cas, items, casid, evictions, held, readq, rorder, writeq, reader,
                   warm, resume, quota, calls, owed, owedE, wn, wv, worder>>

\* SQLiteWriter::run: engine.release(item)
WriterRelease ==
    /\ writer.pc = "release"
    /\ items' = persistent_item_release(items, writer.id)
    /\ writer' = WriterIdle
    /\ UNCHANGED <<lk, stl, start, arith, use_cas, casid, evictions, held, readq, rorder, writeq, db, reader,
                   warm, resume, quota, calls, owed, owedE, wn, wv, worder>>

\* ------------------------------------------------------------- warm-up
\* a scan that returns the first row of the table only
ScanLeft_onerow == {k \in Keys : k >= warm.cur /\ k <= 1 /\ db[k] # NoRow}

\* the keys the scan has not passed that have a row
ScanLeft == {k \in Keys : k >= warm.cur /\ db[k] # NoRow}

\* SQLiteCacheWarmup::run leaving its loop when createItem returns false
WarmRead_stop(rc) ==
    /\ warm.pc = "scan"
    /\ IF rc = "ERROR" \/ ScanLeft = {}
       THEN /\ warm' = [warm EXCEPT !.pc = "done",
                                     !.ok = @ /\ rc # "ERROR"]
            /\ UNCHANGED <<lk, stl, start, arith, items, evictions>>
       ELSE \E victim \in Victims(items) :
              LET k == MinOf(ScanLeft)
                  a == createItem_alloc(items, k, <<k>> \o db[k], 2, use_cas, victim)
              IN  /\ items' = a.its
                  /\ evictions' = evictions + a.ev
                  /\ warm' = IF a.id # NoItem
                             THEN [warm EXCEPT !.pc = "store", !.cur = k + 1,
                                               !.id = a.id]
                             ELSE [warm EXCEPT !.pc = "done", !.cur = k + 1,
                                               !.ok = FALSE]
    /\ UNCHANGED <<lk, stl, start, arith, use_cas, casid, held, readq, rorder, writeq, db, reader, writer,
                   resume, quota, calls, owed, owedE, wn, wv, worder>>

\* SQLiteCacheWarmup::run: one sqlite3_step of the scan, createItem's allocation
WarmRead(rc) ==
    /\ warm.pc = "scan"
    /\ IF rc = "ERROR" \/ ScanLeft = {}
       THEN /\ warm' = [warm EXCEPT !.pc = "done",
                                     !.ok = @ /\ rc # "ERROR"]
            /\ UNCHANGED <<lk, stl, start, arith, items, evictions>>
       ELSE \E victim \in Victims(items) :
              LET k == MinOf(ScanLeft)
                  a == createItem_alloc(items, k, <<k>> \o db[k], 2, use_cas, victim)
              IN  /\ items' = a.its
                  /\ evictions' = evictions + a.ev
                  /\ warm' = IF a.id # NoItem
                             THEN [warm EXCEPT !.pc = "store", !.cur = k + 1,
                                               !.id = a.id]
                             ELSE [warm EXCEPT !.cur = k + 1, !.ok = FALSE]
    /\ UNCHANGED <<lk, stl, start, arith, use_cas, casid, held, readq, rorder, writeq, db, reader, writer,
                   resume, quota, calls, owed, owedE, wn, wv, worder>>

\* SQLiteCacheWarmup::run calling notify_io_complete for every cookie after
\* createItem
WarmStore_notify ==
    /\ warm.pc = "store"
    /\ LET r == createItem_store(items, casid, writeq, warm.id)
       IN  /\ items' = r.its
           /\ casid' = r.casid
           /\ writeq' = r.wq
    /\ warm' = [warm EXCEPT !.pc = "scan", !.id = NoItem]
    /\ resume' = [c \in Cookies |->
                    [status |-> "SUCCESS", key |-> items[warm.id].key]]
    /\ UNCHANGED <<lk, stl, start, arith, use_cas, evictions, held, readq, rorder, db, reader, writer,
                   quota, calls, owed, owedE, wn, wv, worder>>

\* SQLiteCacheWarmup::run: createItem's store_item(ADD)
WarmStore ==
    /\ warm.pc = "store"
    /\ LET r == createItem_store(items, casid, writeq, warm.id)
       IN  /\ items' = r.its
           /\ casid' = r.casid
           /\ writeq' = r.wq
    /\ warm' = [warm EXCEPT !.pc = "scan", !.id = NoItem]
    /\ UNCHANGED <<lk, stl, start, arith, use_cas, evictions, held, readq, rorder, db, reader, writer, resume,
                   quota, calls, owed, owedE, wn, wv, worder>>

\* ------------------------------------------------------------- startup
\* what SQLite::initialize and the initialize of a subclass can meet:
\* sqlite3_open failing, sqlite3_prepare_v2 of CREATE TABLE failing, a step
\* of CREATE TABLE that is not SQLITE_DONE, sqlite3_prepare_v2 of the
\* subclass's statement failing, or none of these
InitializeResults == {"ok", "open", "table", "step", "stmt"}

\* an initialize whose result is true whatever it met
initialize_true(rc) == TRUE

\* the bool SQLite*::initialize returns once it returns
initialize(rc) == rc = "ok"

\* persistent_initialize leaving with ret
InitReturn(ret) == start' = [start EXCEPT !.pc = "done", !.ret = ret]

\* persistent_initialize: initalize_configuration, which returns
\* ENGINE_SUCCESS whatever parse_config returned; config.warmup is in start
InitConfig ==
    /\ start.pc = "config"
    /\ start' = [start EXCEPT !.pc = "assoc"]
    /\ UNCHANGED <<lk, stl, arith, use_cas, items, casid, evictions, held, readq, rorder, writeq,
                   db, reader, writer, warm, resume, quota, calls, owed, owedE,
                   wn, wv, worder>>

\* persistent_initialize: assoc_init
InitAssoc(ret) ==
    /\ start.pc = "assoc"
    /\ IF ret = "ENGINE_SUCCESS" THEN start' = [start EXCEPT !.pc = "slabs"]
       ELSE InitReturn(ret)
    /\ UNCHANGED <<lk, stl, arith, use_cas, items, casid, evictions, held, readq, rorder, writeq,
                   db, reader, writer, warm, resume, quota, calls, owed, owedE,
                   wn, wv, worder>>

\* persistent_initialize: slabs_init
InitSlabs(ret) ==
    /\ start.pc = "slabs"
    /\ IF ret = "ENGINE_SUCCESS" THEN start' = [start EXCEPT !.pc = "reader"]
       ELSE InitReturn(ret)
    /\ UNCHANGED <<lk, stl, arith, use_cas, items, casid, evictions, held, readq, rorder, writeq,
                   db, reader, writer, warm, resume, quota, calls, owed, owedE,
                   wn, wv, worder>>

\* sqlite_io_start_threads: reader->initialize(dbname); a step of CREATE
\* TABLE that is not SQLITE_DONE is stepped again
ReaderInitialize(rc) ==
    /\ start.pc = "reader"
    /\ IF rc = "step" THEN start' = start
       ELSE IF initialize(rc)
            THEN start' = [start EXCEPT !.pc = "writer", !.rinit = rc]
            ELSE start' = [start EXCEPT !.pc = "done", !.rinit = rc,
                                        !.ret = "ENGINE_FAILED"]
    /\ UNCHANGED <<lk, stl, arith, use_cas, items, casid, evictions, held, readq, rorder, writeq,
                   db, reader, writer, warm, resume, quota, calls, owed, owedE,
                   wn, wv, worder>>

\* sqlite_io_start_threads: writer->initialize(dbname), reached only when
\* the reader's returned true
WriterInitialize(rc) ==
    /\ start.pc = "writer"
    /\ IF rc = "step" THEN start' = start
       ELSE IF initialize(rc)
            THEN start' = [start EXCEPT !.pc = "rthread", !.winit = rc]
            ELSE start' = [start EXCEPT !.pc = "done", !.winit = rc,
                                        !.ret = "ENGINE_FAILED"]
    /\ UNCHANGED <<lk, stl, arith, use_cas, items, casid, evictions, held, readq, rorder, writeq,
                   db, reader, writer, warm, resume, quota, calls, owed, owedE,
                   wn, wv, worder>>

\* sqlite_io_start_threads: pthread_create of the reader thread
CreateReader(ok) ==
    /\ start.pc = "rthread"
    /\ IF ok
       THEN start' = [start EXCEPT !.pc = "wthread",
                                   !.threads = @ \cup {"reader"}]
       ELSE InitReturn("ENGINE_FAILED")
    /\ UNCHANGED <<lk, stl, arith, use_cas, items, casid, evictions, held, readq, rorder, writeq,
                   db, reader, writer, warm, resume, quota, calls, owed, owedE,
                   wn, wv, worder>>

\* sqlite_io_start_threads: pthread_create of the writer thread, then of the
\* warm-up thread if config.warmup (the result of its initialize and of its
\* pthread_create are not looked at), and the return to persistent_initialize
CreateWriter(ok) ==
    /\ start.pc = "wthread"
    /\ IF ok
       THEN /\ start' = [start EXCEPT
                           !.pc = "done", !.ret = "ENGINE_SUCCESS",
                           !.threads = @ \cup {"writer"} \cup
                                       (IF start.warmup THEN {"warmup"} ELSE {})]
            /\ warm' = IF start.warmup THEN WarmScan ELSE warm
       ELSE /\ InitReturn("ENGINE_FAILED")
            /\ warm' = warm
    /\ UNCHANGED <<lk, stl, arith, use_cas, items, casid, evictions, held, readq, rorder, writeq,
                   db, reader, writer, resume, quota, calls, owed, owedE,
                   wn, wv, worder>>

\* ------------------------------------------------------------- specification
\* the callers' requests
Callers ==
    \/ \E c \in Cookies, k \in Keys, v \in Vals, f \in FlagVals, e \in ExpVals :
         Allocate(c, k, v, f, e)
    \/ \E c \in Cookies, op \in StoreOps, ecas \in 0..casid : Store(c, op, ecas)
    \/ \E c \in Cookies, k \in Keys : Get(c, k)
    \/ \E c \in Cookies, k \in Keys, cas \in 0..(casid + 1) : Delete(c, k, cas)
    \/ \E c \in Cookies : Release(c)

\* the read-through thread
ReadWorker == ReaderDequeue \/ ReaderRead \/ ReaderStore \/ ReaderNotify

\* the write-behind thread
WriteWorker ==
    \/ WriterDequeue
    \/ \E rc \in UpsertResults : WriterStore(rc)
    \/ WriterRelease

\* the warm-up thread
WarmWorker == (\E rc \in {"ROW", "ERROR"} : WarmRead(rc)) \/ WarmStore

\* the engine in its default configuration: callers and the two workers
Next == Callers \/ ReadWorker \/ WriteWorker

Spec == Init /\ [][Next]_vars

\* the read path: callers and the read-through thread, the write-behind
\* thread not scheduled
ReadNext == Callers \/ ReadWorker

ReadSpec == Init /\ [][ReadNext]_vars

\* the write path: callers that allocate, store and release, and the
\* write-behind thread
WriteNext ==
    \/ \E c \in Cookies, k \in Keys, v \in Vals, f \in FlagVals, e \in ExpVals :
         Allocate(c, k, v, f, e)
    \/ \E c \in Cookies, op \in StoreOps, ecas \in 0..casid : Store(c, op, ecas)
    \/ \E c \in Cookies : Release(c)
    \/ WriteWorker

WriteSpec == Init /\ [][WriteNext]_vars

\* the write path with a write-behind thread that keeps running
WriteLiveSpec ==
    /\ Init
    /\ [][WriteNext]_vars
    /\ WF_vars(WriterDequeue)
    /\ WF_vars(\E rc \in UpsertResults : WriterStore(rc))
    /\ WF_vars(WriterRelease)

\* remove next to stores and gets, with both workers running
DeleteInit ==
    /\ Started
    /\ use_cas = TRUE
    /\ db = InitDb
    /\ warm = WarmOff
    /\ start = Running(warm)
    /\ quota = MaxDeleteCalls

DeleteNext ==
    \/ \E c \in Cookies, v \in Vals : Allocate(c, 1, v, 1, 2)
    \/ \E c \in Cookies : Store(c, "SET", 0)
    \/ \E c \in Cookies : Get(c, 1)
    \/ \E c \in Cookies, cas \in {0, casid} : Delete(c, 1, cas)
    \/ \E c \in Cookies : Release(c)
    \/ ReadWorker
    \/ WriterDequeue \/ WriterStore("DONE") \/ WriterRelease

DeleteSpec == DeleteInit /\ [][DeleteNext]_vars

\* a cache that fills up: the warm-up scan of a table of two rows next to
\* callers that allocate, get and release, and the read-through thread
MemFullInit ==
    /\ Started
    /\ use_cas = TRUE
    /\ db = FullDb
    /\ warm = WarmScan
    /\ start = Running(warm)
    /\ quota = MaxFullCalls

MemFullNext ==
    \/ \E c \in Cookies, k \in Keys : Allocate(c, k, <<"a">>, 1, 2)
    \/ \E c \in Cookies, k \in Keys : Get(c, k)
    \/ \E c \in Cookies : Release(c)
    \/ ReadWorker
    \/ WarmWorker

MemFullSpec == MemFullInit /\ [][MemFullNext]_vars

\* the same with a warm-up thread that keeps running
WarmLiveSpec == MemFullInit /\ [][MemFullNext]_vars /\ WF_vars(WarmWorker)

\* callers that never stop storing, beside a write-behind thread that keeps
\* running and whose upsert always returns SQLITE_DONE; without CAS, so that
\* the CAS counter stands still. A caller allocates while a chunk is free and
\* stores while fewer than MaxPending enqueues of its key await the writer.
PersistInit ==
    /\ Started
    /\ use_cas = FALSE
    /\ db = InitDb
    /\ warm = WarmOff
    /\ start = Running(warm)
    /\ quota = NoQuota

PersistNext ==
    \/ \E c \in Cookies, k \in Keys, v \in Vals, f \in FlagVals, e \in ExpVals :
         FreeIds(items) # {} /\ Allocate(c, k, v, f, e)
    \/ \E c \in Cookies :
         /\ held[c].st = "alloc"
         /\ wn[items[held[c].id].key] < MaxPending
         /\ Store(c, "SET", 0)
    \/ \E c \in Cookies : Release(c)
    \/ WriterDequeue
    \/ WriterStore("DONE")
    \/ WriterRelease

PersistSpec ==
    /\ PersistInit
    /\ [][PersistNext]_vars
    /\ WF_vars(WriterDequeue)
    /\ WF_vars(WriterStore("DONE"))
    /\ WF_vars(WriterRelease)

\* warm-up next to callers that only get and release, over a table of one
\* row and over a table of two
WarmGetInit ==
    /\ Started
    /\ use_cas = TRUE
    /\ db \in {InitDb, FullDb}
    /\ warm = WarmScan
    /\ start = Running(warm)
    /\ quota = MaxWarmGets

WarmGetNext ==
    \/ \E c \in Cookies, k \in Keys : Get(c, k)
    \/ \E c \in Cookies : Release(c)
    \/ ReadWorker
    \/ WarmWorker

WarmGetSpec == WarmGetInit /\ [][WarmGetNext]_vars

\* a cache smaller than the data stored: one caller allocates, SETs and
\* releases a value under either key, the other gets and releases, beside the
\* three workers; the items the warm-up scan makes of the table's rows take
\* chunks of their own
Storers == {2}
Getters == {1}

EvictInit ==
    /\ Started
    /\ use_cas = TRUE
    /\ db = FullDb
    /\ warm = WarmScan
    /\ start = Running(warm)
    /\ quota = MaxEvictCalls

EvictNext ==
    \/ \E c \in Storers, k \in Keys : Allocate(c, k, <<"a">>, 1, 2)
    \/ \E c \in Storers : Store(c, "SET", 0)
    \/ \E c \in Getters, k \in Keys : Get(c, k)
    \/ \E c \in Cookies : Release(c)
    \/ ReadWorker
    \/ WriteWorker
    \/ WarmWorker

EvictSpec == EvictInit /\ [][EvictNext]_vars

\* the engine from create_instance on: persistent_initialize, then, once it
\* has returned ENGINE_SUCCESS, the callers; each worker runs from its
\* pthread_create on
StartInit ==
    /\ Started
    /\ use_cas = TRUE
    /\ db = InitDb
    /\ warm = WarmOff
    /\ start \in {[pc |-> "config", warmup |-> w, rinit |-> "none",
                    winit |-> "none", threads |-> {}, ret |-> "none"] :
                   w \in BOOLEAN}
    /\ quota = MaxStartCalls

Initialize ==
    \/ InitConfig
    \/ \E ret \in {"ENGINE_SUCCESS", "ENGINE_ENOMEM"} : InitAssoc(ret)
    \/ \E ret \in {"ENGINE_SUCCESS", "ENGINE_ENOMEM"} : InitSlabs(ret)
    \/ \E rc \in InitializeResults : ReaderInitialize(rc)
    \/ \E rc \in InitializeResults : WriterInitialize(rc)
    \/ \E ok \in BOOLEAN : CreateReader(ok)
    \/ \E ok \in BOOLEAN : CreateWriter(ok)

StartNext ==
    \/ Initialize
    \/ (start.pc = "done" /\ start.ret = "ENGINE_SUCCESS") /\ Callers
    \/ "reader" \in start.threads /\ ReadWorker
    \/ "writer" \in start.threads /\ WriteWorker
    \/ "warmup" \in start.threads /\ WarmWorker

StartSpec == StartInit /\ [][StartNext]_vars

\* arithmetic next to callers that allocate, store and release; no worker
\* running
ArithInit ==
    /\ Started
    /\ use_cas = TRUE
    /\ db = InitDb
    /\ warm = WarmOff
    /\ start = Running(warm)
    /\ quota = MaxArithCalls

ArithNext ==
    \/ \E c \in Cookies, k \in Keys, incr \in BOOLEAN, create \in BOOLEAN,
          delta \in Deltas, initial \in Initials, e \in ExpVals :
         ArithCall(c, k, incr, create, delta, initial, e)
    \/ \E c \in Cookies : ArithLookup(c)
    \/ \E c \in Cookies : ArithCreate(c)
    \/ \E c \in Cookies, k \in Keys, v \in Vals, f \in FlagVals, e \in ExpVals :
         Allocate(c, k, v, f, e)
    \/ \E c \in Cookies, op \in StoreOps, ecas \in 0..casid : Store(c, op, ecas)
    \/ \E c \in Cookies : Release(c)

ArithSpec == ArithInit /\ [][ArithNext]_vars

\* the engine started with warmup = true
WarmInit ==
    /\ Started
    /\ use_cas = TRUE
    /\ db = InitDb
    /\ warm = WarmScan
    /\ start = Running(warm)
    /\ quota = MaxWarmCalls

WarmNext == Callers \/ ReadWorker \/ WriteWorker \/ WarmWorker

WarmSpec == WarmInit /\ [][WarmNext]_vars

\* the item store alone, with and without CAS: callers that allocate, store,
\* get and release; no worker running
StoreInit ==
    /\ Started
    /\ use_cas \in BOOLEAN
    /\ db = InitDb
    /\ warm = WarmOff
    /\ start = Running(warm)
    /\ quota = MaxStoreCalls

StoreNext ==
    \/ \E c \in Cookies, k \in Keys, v \in Vals, f \in FlagVals, e \in ExpVals :
         Allocate(c, k, v, f, e)
    \/ \E c \in Cookies, op \in StoreOps, ecas \in 0..casid : Store(c, op, ecas)
    \/ \E c \in Cookies, k \in Keys : Get(c, k)
    \/ \E c \in Cookies : Release(c)

StoreSpec == StoreInit /\ [][StoreNext]_vars

\* the read path without a bound on the requests: gets and the read worker,
\* which runs whenever it can and whose durable fetch always returns
LiveInit ==
    /\ Started
    /\ use_cas = TRUE
    /\ db = InitDb
    /\ warm = WarmOff
    /\ start = Running(warm)
    /\ quota = NoQuota

LiveNext ==
    \/ \E c \in Cookies, k \in Keys : Get(c, k)
    \/ \E c \in Cookies : Release(c)
    \/ ReadWorker

LiveSpec ==
    /\ LiveInit
    /\ [][LiveNext]_vars
    /\ WF_vars(ReaderDequeue)
    /\ WF_vars(ReaderRead)
    /\ WF_vars(ReaderStore)
    /\ WF_vars(ReaderNotify)

\* ------------------------------------------------------------- locks
\* the cache, the queues and the workers' locals stay as they are while the
\* lock-level steps are followed
engine == <<use_cas, items, casid, evictions, held, readq, writeq, db,
            reader, writer, warm, resume, quota, calls, owed, owedE, wn, wv,
            arith, start, worder, rorder>>

\* the positions at which a thread is inside pthread_mutex_lock(&cache_lock),
\* and the critical section each of them enters
CacheWaits == {"alloc_lock", "store_lock", "get_lock", "rel_lock",
               "enq_rel_lock", "wrel_lock", "ralloc_lock", "radd_lock"}
Section(pc) ==
    CASE pc = "alloc_lock" -> "alloc"
      [] pc = "store_lock" -> "store"
      [] pc = "get_lock" -> "get"
      [] pc = "rel_lock" -> "rel"
      [] pc = "enq_rel_lock" -> "enq_rel"
      [] pc = "wrel_lock" -> "wrel"
      [] pc = "ralloc_lock" -> "ralloc"
      [] pc = "radd_lock" -> "radd"

\* do_item_release on the reference count
Released(ref, i) == [ref EXCEPT ![i] = IF @ > 0 THEN @ - 1 ELSE 0]

\* engine.allocate is called
LockAllocate(t) ==
    /\ t \in Producers
    /\ lk.pc[t] = "idle"
    /\ lk.ops < MaxLockOps
    /\ lk' = [lk EXCEPT !.pc[t] = "alloc_lock", !.ops = @ + 1]
    /\ UNCHANGED <<engine, stl>>

\* engine.get is called
LockGet(t) ==
    /\ t \in Producers
    /\ lk.pc[t] = "idle"
    /\ lk.ops < MaxLockOps
    /\ lk' = [lk EXCEPT !.pc[t] = "get_lock", !.ops = @ + 1]
    /\ UNCHANGED <<engine, stl>>

\* pthread_mutex_lock(&engine->cache_lock) returns
CacheLock(t) ==
    /\ lk.pc[t] \in CacheWaits
    /\ lk.cache = "free"
    /\ lk' = [lk EXCEPT !.cache = t, !.pc[t] = Section(lk.pc[t])]
    /\ UNCHANGED <<engine, stl>>

\* item_alloc: a chunk nobody references is taken (unlinked first when it is
\* still in the hash table) and handed out with one reference
LockItemAlloc(t) ==
    /\ lk.pc[t] = "alloc"
    /\ lk' = IF lk.ref[Chunk(t)] = 0
             THEN [lk EXCEPT !.cache = "free", !.pc[t] = "store_lock",
                             !.ref[Chunk(t)] = 1, !.it[t] = Chunk(t),
                             !.linked = IF @ = Chunk(t) THEN NoItem ELSE @]
             ELSE [lk EXCEPT !.cache = "free", !.pc[t] = "idle"]
    /\ UNCHANGED <<engine, stl>>

\* store_item(SET): the item replaces what the key had, cache_lock is given
\* up and the item goes on to sqlite_io_store_item
LockStoreItem(t) ==
    /\ lk.pc[t] = "store"
    /\ lk' = [lk EXCEPT !.cache = "free", !.pc[t] = "enq_load",
                        !.linked = lk.it[t]]
    /\ UNCHANGED <<engine, stl>>

\* SQLiteWriter::enqueue, ++item->refcount: the count is read ...
EnqueueLoad(t) ==
    /\ lk.pc[t] = "enq_load"
    /\ lk' = [lk EXCEPT !.pc[t] = "enq_inc", !.tmp[t] = lk.ref[lk.it[t]]]
    /\ UNCHANGED <<engine, stl>>

\* ... and written back one higher
EnqueueIncrement(t) ==
    /\ lk.pc[t] = "enq_inc"
    /\ lk' = [lk EXCEPT !.pc[t] = "enq_lock", !.ref[lk.it[t]] = lk.tmp[t] + 1]
    /\ UNCHANGED <<engine, stl>>

\* SQLiteWriter::enqueue, lock() and queue.find(key)
EnqueueLock(t) ==
    /\ lk.pc[t] = "enq_lock"
    /\ lk.wmutex = "free"
    /\ lk' = [lk EXCEPT !.wmutex = t,
                        !.pc[t] = IF lk.wq # NoItem THEN "enq_rel_lock"
                                  ELSE "enq_put"]
    /\ UNCHANGED <<engine, stl>>

\* SQLiteWriter::enqueue, engine.release of the entry it replaces, and erase
EnqueueRelease(t) ==
    /\ lk.pc[t] = "enq_rel"
    /\ lk' = [lk EXCEPT !.cache = "free", !.pc[t] = "enq_put",
                        !.ref = Released(lk.ref, lk.wq), !.wq = NoItem]
    /\ UNCHANGED <<engine, stl>>

\* SQLiteWriter::enqueue, queue[key] = item; notify(); unlock()
EnqueuePut(t) ==
    /\ lk.pc[t] = "enq_put"
    /\ lk' = [lk EXCEPT !.wmutex = "free", !.pc[t] = "rel_lock",
                        !.wq = lk.it[t]]
    /\ UNCHANGED <<engine, stl>>

\* item_release by the caller that holds the item
LockItemRelease(t) ==
    /\ lk.pc[t] = "rel"
    /\ lk' = [lk EXCEPT !.cache = "free", !.pc[t] = "idle",
                        !.ref = Released(lk.ref, lk.it[t]), !.it[t] = NoItem]
    /\ UNCHANGED <<engine, stl>>

\* item_get: a hit takes a reference, a miss goes on to sqlite_io_get_item
LockItemGet(t) ==
    /\ lk.pc[t] = "get"
    /\ lk' = IF lk.linked # NoItem
             THEN [lk EXCEPT !.cache = "free", !.pc[t] = "rel_lock",
                             !.ref[lk.linked] = @ + 1, !.it[t] = lk.linked]
             ELSE [lk EXCEPT !.cache = "free", !.pc[t] = "rq_lock"]
    /\ UNCHANGED <<engine, stl>>

\* SQLiteReader::enqueue, lock()
ReaderEnqueueLock(t) ==
    /\ lk.pc[t] = "rq_lock"
    /\ lk.rmutex = "free"
    /\ lk' = [lk EXCEPT !.rmutex = t, !.pc[t] = "rq_put"]
    /\ UNCHANGED <<engine, stl>>

\* SQLiteReader::enqueue, queue[cookie] = key; notify(); unlock()
ReaderEnqueuePut(t) ==
    /\ lk.pc[t] = "rq_put"
    /\ lk' = [lk EXCEPT !.rmutex = "free", !.pc[t] = "idle",
                        !.rq = @ \cup {t}]
    /\ UNCHANGED <<engine, stl>>

\* SQLiteWriter::run, lock()
WriterRunLock ==
    /\ lk.pc["writer"] = "lock"
    /\ lk.wmutex = "free"
    /\ lk' = [lk EXCEPT !.wmutex = "writer", !.pc["writer"] = "check"]
    /\ UNCHANGED <<engine, stl>>

\* SQLiteWriter::run, wait(): pthread_cond_wait gives the mutex up
WriterRunWait ==
    /\ lk.pc["writer"] = "check"
    /\ lk.wq = NoItem
    /\ lk' = [lk EXCEPT !.wmutex = "free", !.pc["writer"] = "wait"]
    /\ UNCHANGED <<engine, stl>>

\* pthread_cond_wait returns after a notify, the mutex taken again
WriterRunWake ==
    /\ lk.pc["writer"] = "wait"
    /\ lk.wq # NoItem
    /\ lk.wmutex = "free"
    /\ lk' = [lk EXCEPT !.wmutex = "writer", !.pc["writer"] = "check"]
    /\ UNCHANGED <<engine, stl>>

\* SQLiteWriter::run taking queue.begin() and going on to storeItem with the
\* mutex still held
WriterRunPop_nounlock ==
    /\ lk.pc["writer"] = "check"
    /\ lk.wq # NoItem
    /\ lk' = [lk EXCEPT !.pc["writer"] = "upsert",
                        !.it["writer"] = lk.wq, !.wq = NoItem]
    /\ UNCHANGED <<engine, stl>>

\* SQLiteWriter::run: queue.begin() is taken and erased, unlock()
WriterRunPop ==
    /\ lk.pc["writer"] = "check"
    /\ lk.wq # NoItem
    /\ lk' = [lk EXCEPT !.wmutex = "free", !.pc["writer"] = "upsert",
                        !.it["writer"] = lk.wq, !.wq = NoItem]
    /\ UNCHANGED <<engine, stl>>

\* SQLiteWriter::run taking lock() before engine.release
WriterRunStoreItem_locked ==
    /\ lk.pc["writer"] = "upsert"
    /\ lk.wmutex = "free"
    /\ lk' = [lk EXCEPT !.wmutex = "writer", !.pc["writer"] = "wrel_lock"]
    /\ UNCHANGED <<engine, stl>>

\* SQLiteWriter::storeItem
WriterRunStoreItem ==
    /\ lk.pc["writer"] = "upsert"
    /\ lk' = [lk EXCEPT !.pc["writer"] = "wrel_lock"]
    /\ UNCHANGED <<engine, stl>>

\* SQLiteWriter::run, engine.release(item), then on to lock()
WriterRunRelease ==
    /\ lk.pc["writer"] = "wrel"
    /\ lk' = [lk EXCEPT !.cache = "free", !.pc["writer"] = "lock",
                        !.ref = Released(lk.ref, lk.it["writer"]),
                        !.it["writer"] = NoItem]
    /\ UNCHANGED <<engine, stl>>

\* SQLiteReader::run, lock()
ReaderRunLock ==
    /\ lk.pc["reader"] = "lock"
    /\ lk.rmutex = "free"
    /\ lk' = [lk EXCEPT !.rmutex = "reader", !.pc["reader"] = "check"]
    /\ UNCHANGED <<engine, stl>>

\* SQLiteReader::run, wait()
ReaderRunWait ==
    /\ lk.pc["reader"] = "check"
    /\ lk.rq = {}
    /\ lk' = [lk EXCEPT !.rmutex = "free", !.pc["reader"] = "wait"]
    /\ UNCHANGED <<engine, stl>>

\* pthread_cond_wait returns after a notify, the mutex taken again
ReaderRunWake ==
    /\ lk.pc["reader"] = "wait"
    /\ lk.rq # {}
    /\ lk.rmutex = "free"
    /\ lk' = [lk EXCEPT !.rmutex = "reader", !.pc["reader"] = "check"]
    /\ UNCHANGED <<engine, stl>>

\* SQLiteReader::run: queue.begin() is taken and erased, unlock()
ReaderRunPop ==
    /\ lk.pc["reader"] = "check"
    /\ lk.rq # {}
    /\ LET c == IF "c1" \in lk.rq THEN "c1" ELSE "c2"
       IN  lk' = [lk EXCEPT !.rmutex = "free", !.pc["reader"] = "fetch",
                            !.cookie = c, !.rq = @ \ {c}]
    /\ UNCHANGED <<engine, stl>>

\* SQLiteReader::readItem: sqlite3_step finds a row or does not
ReaderRunReadItem(found) ==
    /\ lk.pc["reader"] = "fetch"
    /\ lk' = [lk EXCEPT !.pc["reader"] = IF found THEN "ralloc_lock"
                                         ELSE "notify"]
    /\ UNCHANGED <<engine, stl>>

\* SQLiteReader::createItem, engine.allocate
ReaderRunAllocate ==
    /\ lk.pc["reader"] = "ralloc"
    /\ lk' = IF lk.ref[Chunk("reader")] = 0
             THEN [lk EXCEPT !.cache = "free", !.pc["reader"] = "radd_lock",
                             !.ref[Chunk("reader")] = 1,
                             !.it["reader"] = Chunk("reader"),
                             !.linked = IF @ = Chunk("reader") THEN NoItem
                                        ELSE @]
             ELSE [lk EXCEPT !.cache = "free", !.pc["reader"] = "notify"]
    /\ UNCHANGED <<engine, stl>>

\* SQLiteReader::createItem, store_item(ADD): linked unless the key is there
ReaderRunAdd ==
    /\ lk.pc["reader"] = "radd"
    /\ lk' = [lk EXCEPT !.cache = "free", !.pc["reader"] = "notify",
                        !.linked = IF @ = NoItem THEN lk.it["reader"] ELSE @,
                        !.it["reader"] = NoItem]
    /\ UNCHANGED <<engine, stl>>

\* SQLiteReader::run, notify_io_complete, then on to lock()
ReaderRunNotify ==
    /\ lk.pc["reader"] = "notify"
    /\ lk' = [lk EXCEPT !.pc["reader"] = "lock", !.cookie = "none"]
    /\ UNCHANGED <<engine, stl>>

\* callers and workers at the level of their lock and unlock calls
LockInit ==
    /\ Started
    /\ use_cas = FALSE
    /\ db = InitDb
    /\ warm = WarmOff
    /\ start = Running(warm)
    /\ quota = NoQuota

LockNext ==
    \/ \E t \in Producers : LockAllocate(t)
    \/ \E t \in Producers : LockGet(t)
    \/ \E t \in LockThreads : CacheLock(t)
    \/ \E t \in Producers : LockItemAlloc(t)
    \/ \E t \in Producers : LockStoreItem(t)
    \/ \E t \in Producers : EnqueueLoad(t)
    \/ \E t \in Producers : EnqueueIncrement(t)
    \/ \E t \in Producers : EnqueueLock(t)
    \/ \E t \in Producers : EnqueueRelease(t)
    \/ \E t \in Producers : EnqueuePut(t)
    \/ \E t \in Producers : LockItemRelease(t)
    \/ \E t \in Producers : LockItemGet(t)
    \/ \E t \in Producers : ReaderEnqueueLock(t)
    \/ \E t \in Producers : ReaderEnqueuePut(t)
    \/ WriterRunLock \/ WriterRunWait \/ WriterRunWake \/ WriterRunPop
    \/ WriterRunStoreItem \/ WriterRunRelease
    \/ ReaderRunLock \/ ReaderRunWait \/ ReaderRunWake \/ ReaderRunPop
    \/ (\E found \in BOOLEAN : ReaderRunReadItem(found))
    \/ ReaderRunAllocate \/ ReaderRunAdd \/ ReaderRunNotify

LockSpec == LockInit /\ [][LockNext]_vars

\* ------------------------------------------------------------- properties
\* the linked items as a caller sees them: key -> value, flags, exptime, CAS
NoView == [val |-> <<>>, flags |-> 0, exptime |-> 0, cas |-> 0, linked |-> FALSE]
LinkedView(its) ==
    [k \in Keys |->
       LET i == assoc_find(its, k)
       IN  IF i = NoItem THEN NoView
           ELSE [val |-> its[i].val, flags |-> its[i].flags,
                 exptime |-> its[i].exptime, cas |-> item_get_cas(its[i]),
                 linked |-> TRUE]]

\* the PendingRead entries of a token: queued, or taken by the worker and
\* not yet answered
Pending(c) ==
    (IF readq[c] # NoKey THEN 1 ELSE 0)
    + (IF reader.pc # "idle" /\ reader.cookie = c THEN 1 ELSE 0)

\* C1: for a key absent from the item store and from the durable table,
\* get returns WOULD_BLOCK, the read worker answers the token with
\* key-not-found, and the get retried after that signal reports not-found:
\* it does not return WOULD_BLOCK again and enqueues no further PendingRead.
C1_RetriedGetReportsNotFound ==
    [][/\ \A c \in Cookies, k \in Keys :
            (Get(c, k) /\ assoc_find(items, k) = NoItem /\ db[k] = NoRow)
            => IF resume[c] = [status |-> "KEY_ENOENT", key |-> k]
               THEN resume'[c].status # "EWOULDBLOCK" /\ readq' = readq
               ELSE resume'[c].status = "EWOULDBLOCK"
       /\ (ReaderNotify /\ db[reader.key] = NoRow)
            => resume'[reader.cookie] = [status |-> "KEY_ENOENT", key |-> reader.key]
      ]_vars

C3_OncePerEnqueue == \A c \in Cookies : Pending(c) = 0 => owed[c] = 0

\* C3 as amended: the resumption signal is sent exactly once per PendingRead
\* entry created in the read queue: the entries of a token created and not
\* yet answered are the one queued and the one the worker holds; an enqueue
\* for a token that has an entry queued replaces that entry and is owed no
\* signal of its own.
C3_OncePerEntry ==
    \A c \in Cookies :
        /\ owedE[c] = Pending(c)
        /\ owed[c] >= owedE[c]

\* a token that enqueued twice before the worker drained and was answered once
C3_Witness ==
    \E c \in Cookies :
        /\ owed[c] = 1 /\ owedE[c] = 0
        /\ resume[c].status \in {"SUCCESS", "KEY_ENOENT"}

\* C4: under fair scheduling of the read worker and a fetch that always
\* returns, every read request that is queued is eventually taken off the
\* read queue (and its token then resumed), whatever other callers enqueue
\* in the meantime.
C4_QueuedReadIsDequeued ==
    \A c \in Cookies : (readq[c] # NoKey) ~> (readq[c] = NoKey)

\* C5: the write queue holds one entry per key and that entry is the item
\* enqueued last; the worker performs at most one upsert for the entry it
\* took, also when the entry stands for two or more enqueues, and once the
\* upsert is done the durable value of the key is the value enqueued last.
C5_Supersession ==
    /\ \A k \in Keys :
         /\ (wn[k] = 0) <=> (writeq[k] = NoItem)
         /\ writeq[k] # NoItem
              => /\ items[writeq[k]].used
                 /\ items[writeq[k]].key = k
                 /\ items[writeq[k]].val = wv[k]
    /\ writer.pc # "idle"
         => /\ items[writer.id].used
            /\ items[writer.id].val = writer.v
            /\ writer.n >= 1
            /\ writer.ups <= 1
            /\ writer.ups = 1 => writer.pc = "release"
    /\ (writer.pc = "release" /\ writer.ups = 1)
         => sqlite3_column(db[items[writer.id].key], 3) = writer.v

\* two enqueues of one key drained as one entry whose upsert is done, while
\* the first of the two values is still linked nowhere in the table row
C5_Witness ==
    /\ writer.pc = "release"
    /\ writer.n >= 2
    /\ writer.ups = 1
    /\ writer.v = <<"b">>
    /\ sqlite3_column(db[items[writer.id].key], 3) = <<"b">>

RowMatches(it, row) ==
    /\ it.flags = row[1]
    /\ it.exptime = row[2]
    /\ it.val = row[4]

\* C7: the item the read worker or the warm-up loader allocates for a row has
\* the flags, the expiry and the value of the row, and the row the write
\* worker upserts has the flags, the expiry and the value of the item.
C7_RoundTrip ==
    [][/\ (ReaderRead /\ reader'.pc = "store")
            => RowMatches(items'[reader'.id], db[reader.key])
       /\ ((\E rc \in {"ROW", "ERROR"} : WarmRead(rc)) /\ warm'.pc = "store")
            => RowMatches(items'[warm'.id], db[items'[warm'.id].key])
       /\ (WriterStore("DONE") /\ writer'.pc = "release")
            => RowMatches(items[writer.id], db'[items[writer.id].key])
      ]_vars

\* the store requests a caller can make: a token holding an allocated item,
\* an operation, an expected CAS and the item the allocator would evict
StoreCalls ==
    {q \in [c : Cookies, op : StoreOps, ecas : 0..casid, victim : Victims(items)] :
       held[q.c].st = "alloc"}

\* C8: right after a store with SET has succeeded, with no worker step in
\* between, get of the key by any token returns the stored item with the
\* stored value, does not return WOULD_BLOCK and leaves the read queue as it is.
C8_GetAfterSet ==
    \A q \in StoreCalls :
       LET i == held[q.c].id
           k == items[i].key
           r == StoreResult(q.c, "SET", q.ecas, q.victim)
       IN  r.res = "SUCCESS"
           => \A d \in Cookies :
                LET g == persistent_get(r.its, readq, d, k)
                IN  /\ g.res = "SUCCESS"
                    /\ g.id = i
                    /\ ~g.queued
                    /\ g.rq = readq
                    /\ g.its[g.id].key = k
                    /\ g.its[g.id].val = items[i].val

\* a get by another token of an item stored with SET that the write worker
\* has not taken
C8_Witness ==
    \E c, d \in Cookies :
        /\ c # d
        /\ held[c].st = "stored" /\ held[c].res = "SUCCESS"
        /\ held[d] = [id |-> held[c].id, st |-> "got", res |-> "SUCCESS"]
        /\ writeq[items[held[c].id].key] = held[c].id
        /\ items[held[c].id].linked
        /\ writer.pc = "idle" /\ reader.pc = "idle"

\* the stores of C9: a success changes the CAS of the key to a nonzero one
\* that is above every CAS given out before, so that no item has it; a nonzero expectedCas equal to the CAS of the linked item lets
\* SET and REPLACE succeed; a nonzero expectedCas that differs from it fails
\* with KEY_EEXISTS and leaves the linked items and the write queue alone
CasRoundTrip(q) ==
    LET i == held[q.c].id
        k == items[i].key
        old == assoc_find(items, k)
        r == StoreResult(q.c, q.op, q.ecas, q.victim)
        new == LinkedView(r.its)[k]
    IN  /\ r.res = "SUCCESS"
             => /\ new.linked
                /\ new.cas # 0
                /\ r.cas = new.cas
                /\ new.cas > casid
                /\ r.casid = new.cas
                /\ \A j \in ItemIds :
                     (items[j].used /\ j # i) => new.cas # item_get_cas(items[j])
        /\ (old # NoItem /\ q.ecas # 0 /\ q.ecas = item_get_cas(items[old])
              /\ q.op \in {"SET", "REPLACE"})
             => r.res = "SUCCESS"
        /\ (old # NoItem /\ q.ecas # 0 /\ q.ecas # item_get_cas(items[old])
              /\ q.op # "ADD")
             => /\ r.res = "KEY_EEXISTS"
                /\ LinkedView(r.its) = LinkedView(items)
                /\ r.wq = writeq

\* C9 as claimed: every store obeys the CAS round trip.
C9_CasRoundTrip == \A q \in StoreCalls : CasRoundTrip(q)

\* C9 as amended: with CAS enabled (use_cas, the default) every store obeys
\* the CAS round trip; without it every CAS reads 0.
C9_CasRoundTripWithCas ==
    use_cas => /\ \A q \in StoreCalls : CasRoundTrip(q)
               /\ \A j \in ItemIds : items[j].cas <= casid

\* ADD gave CAS 1, a store with expectedCas 1 gave CAS 2, and a store with
\* the stale expectedCas 1 has failed with KEY_EEXISTS
C9_Witness ==
    /\ use_cas
    /\ casid = 2
    /\ \E c \in Cookies :
         /\ held[c].st = "stored" /\ held[c].res = "KEY_EEXISTS"
         /\ item_get_cas(items[held[c].id]) = 1
         /\ LinkedView(items)[items[held[c].id].key].cas = 2

\* C10: ADD of a linked key returns NOT_STORED and REPLACE, APPEND and
\* PREPEND of a key that is not linked return KEY_ENOENT; both leave the
\* linked items, every item but the caller's own, its reference count, the
\* CAS counter and the write queue alone.
C10_FailedStoreChangesNothing ==
    \A q \in StoreCalls :
       LET i == held[q.c].id
           old == assoc_find(items, items[i].key)
           r == StoreResult(q.c, q.op, q.ecas, q.victim)
           unchanged == /\ LinkedView(r.its) = LinkedView(items)
                        /\ \A j \in ItemIds \ {i} : r.its[j] = items[j]
                        /\ r.its[i].refcount = items[i].refcount
                        /\ r.wq = writeq
                        /\ r.casid = casid
                        /\ r.ev = 0
       IN  /\ (q.op = "ADD" /\ old # NoItem)
                => r.res = "NOT_STORED" /\ unchanged
           /\ (q.op \in {"REPLACE", "APPEND", "PREPEND"} /\ old = NoItem)
                => r.res = "KEY_ENOENT" /\ unchanged

\* an ADD of a linked key and a REPLACE, APPEND or PREPEND of a key that is
\* not linked have both failed
C10_Witness ==
    \E c, d \in Cookies :
        /\ held[c].st = "stored" /\ held[c].res = "NOT_STORED"
        /\ held[d].st = "stored" /\ held[d].res = "KEY_ENOENT"
        /\ assoc_find(items, items[held[c].id].key) # NoItem
        /\ assoc_find(items, items[held[d].id].key) = NoItem

\* C11: delete of a linked key returns SUCCESS and leaves the key not linked;
\* delete of a key that is not linked returns KEY_ENOENT.
C11_DeleteResult ==
    [][\A c \in Cookies, k \in Keys, cas \in 0..(casid + 1) :
         Delete(c, k, cas)
         => LET d == persistent_item_delete(items, readq, c, k, cas)
            IN  IF assoc_find(items, k) # NoItem
                THEN d.res = "SUCCESS" /\ assoc_find(items', k) = NoItem
                ELSE d.res = "KEY_ENOENT"
      ]_vars

\* C12: delete with a nonzero cas that differs from the CAS of the item
\* linked under the key leaves the item linked and unchanged.
C12_DeleteOnCasMatchOnly ==
    [][\A c \in Cookies, k \in Keys, cas \in 0..(casid + 1) :
         (/\ Delete(c, k, cas)
          /\ assoc_find(items, k) # NoItem
          /\ cas # 0
          /\ cas # item_get_cas(items[assoc_find(items, k)]))
         => /\ assoc_find(items', k) = assoc_find(items, k)
            /\ LinkedView(items') = LinkedView(items)
      ]_vars

\* an allocation in this state cannot fail: a chunk is free or an item can
\* be evicted
CanAllocate(its) == FreeIds(its) # {} \/ Evictable(its) # {}

\* C13: arithmetic with create on a key that is not linked links an item
\* whose value is the decimal text of initial (followed by the value's line
\* terminator) and returns SUCCESS with result = initial and the CAS of that
\* item; arithmetic on a linked number returns SUCCESS with the stored number
\* plus delta (minus delta, not below 0, for a decrement), links its decimal
\* text and returns a CAS different from the one the key had.
C13_Arithmetic ==
    [][\A c \in Cookies :
         LET a == arith[c]
             i == assoc_find(items, a.key)
             new == LinkedView(items')[a.key]
             n == ParseNumber(items[i].val)
         IN  /\ (ArithCreate(c) /\ arith'[c].pc = "done" /\ arith'[c].res = "SUCCESS")
                  => /\ new.linked
                     /\ Trim(new.val) = Digits(a.initial)
                     /\ ParseNumber(new.val) = a.initial
                     /\ arith'[c].result = a.initial
                     /\ arith'[c].cas = new.cas
                     /\ new.cas # 0
             /\ (ArithCreate(c) /\ i = NoItem /\ CanAllocate(items))
                  => arith'[c].pc = "done" /\ arith'[c].res = "SUCCESS"
             /\ (ArithLookup(c) /\ i # NoItem /\ arith'[c].res = "SUCCESS")
                  => /\ n # NotANumber
                     /\ arith'[c].result =
                          IF a.incr THEN n + a.delta
                          ELSE IF a.delta > n THEN 0 ELSE n - a.delta
                     /\ new.linked
                     /\ new.val = NumberText(arith'[c].result)
                     /\ arith'[c].cas = new.cas
                     /\ new.cas # item_get_cas(items[i])
             /\ (ArithLookup(c) /\ i # NoItem /\ n # NotANumber
                   /\ CanAllocate(item_ref(items, i)))
                  => arith'[c].res = "SUCCESS"
      ]_vars

\* the second of two identical calls (increment, create, delta 5, initial 10)
\* has returned 15 and CAS 2 after the first linked "10" with CAS 1
C13_Witness ==
    \E c \in Cookies :
        /\ arith[c].pc = "done" /\ arith[c].res = "SUCCESS"
        /\ arith[c].incr /\ arith[c].create
        /\ arith[c].delta = 5 /\ arith[c].initial = 10
        /\ arith[c].result = 15
        /\ arith[c].cas = 2
        /\ casid = 2
        /\ LinkedView(items)[arith[c].key].val = <<"1", "5">> \o CRLF
        /\ LinkedView(items)[arith[c].key].cas = 2

\* the keys the durable table has a row for
Rows == {k \in Keys : db[k] # NoRow}

C15_Eviction ==
    [][/\ evictions' >= evictions
       /\ \A c \in Cookies, k \in Keys :
            (Allocate(c, k, <<"a">>, 1, 2)
             /\ (Evictable(items) # {} \/ FreeIds(items) # {}))
            => /\ held'[c].st = "alloc" /\ held'[c].res = "SUCCESS"
               /\ items'[held'[c].id].key = k
               /\ evictions' = evictions + (IF FreeIds(items) = {} THEN 1 ELSE 0)]_vars

\* an allocation found every chunk taken, evicted an unreferenced linked item
\* and gave its chunk to the caller
C15_Witness ==
    /\ evictions >= 1
    /\ FreeIds(items) = {}
    /\ \E c \in Cookies : held[c].st = "alloc" /\ held[c].res = "SUCCESS"

\* C16: a failed or rejected durable upsert changes neither the in-memory
\* store nor what the caller holds from its store, and the write worker goes
\* on to the next queued entry: it leaves the item it is persisting.
C16_WriteFailureAbsorbed ==
    /\ [][\A rc \in UpsertResults \ {"DONE"} :
            WriterStore(rc) => items' = items /\ held' = held /\ casid' = casid]_vars
    /\ (writer.pc = "store") ~> (writer.pc = "release")

\* C17: a caller's store that returns SUCCESS leaves the stored item in the
\* write queue under its key and touches no other entry; a store that fails
\* leaves the write queue as it is; the stores of the read-through worker and
\* of the warm-up loader leave the write queue as it is; and a key has a
\* queue entry only while a caller's successful store of it awaits the writer.
C17_EnqueuedByCallerStores ==
    /\ \A q \in StoreCalls :
         LET k == items[held[q.c].id].key
             r == StoreResult(q.c, q.op, q.ecas, q.victim)
         IN  /\ r.res = "SUCCESS"
                  => /\ r.wq[k] = r.id
                     /\ r.its[r.id].linked /\ r.its[r.id].refcount >= 1
                     /\ \A j \in Keys \ {k} : r.wq[j] = writeq[j]
             /\ r.res # "SUCCESS" => r.wq = writeq
    /\ reader.pc = "store"
         => createItem_store(items, casid, writeq, reader.id).wq = writeq
    /\ warm.pc = "store"
         => createItem_store(items, casid, writeq, warm.id).wq = writeq
    /\ \A k \in Keys : (writeq[k] # NoItem) <=> (wn[k] >= 1)

\* a caller's store has succeeded and its item is queued for the writer,
\* while the warm-up loader is about to store an item of another key that
\* has no queue entry
C17_Witness ==
    /\ \E c \in Cookies :
         /\ held[c].st = "stored" /\ held[c].res = "SUCCESS"
         /\ writeq[items[held[c].id].key] = held[c].id
    /\ warm.pc = "store"
    /\ writeq[items[warm.id].key] = NoItem

\* C18: when the durable store could not be opened or prepared for the
\* reader or for the writer, persistent_initialize has returned a code that
\* is not ENGINE_SUCCESS and no worker thread has been created, nor has any
\* worker taken a step.
C18_StartupFailureFatal ==
    (start.rinit \in {"open", "table", "stmt"}
     \/ start.winit \in {"open", "table", "stmt"})
    => /\ start.pc = "done"
       /\ start.ret # "ENGINE_SUCCESS" /\ start.ret # "none"
       /\ start.threads = {}
       /\ reader = ReaderIdle /\ writer = WriterIdle /\ warm = WarmOff
       /\ calls = 0

\* the reader was prepared, the writer's statement could not be, and
\* persistent_initialize has returned ENGINE_FAILED
C18_Witness ==
    /\ start.pc = "done"
    /\ start.rinit = "ok" /\ start.winit = "stmt"
    /\ start.ret = "ENGINE_FAILED"

\* the keys that have an entry in the write queue
Queued(wq) == {k \in Keys : wq[k] # NoItem}

\* C19: every entry of the write queue stands under the key of its item, so
\* that no key has two; and enqueueing an item whose key is queued puts that
\* item in the place of the queued one, takes exactly one reference from the
\* replaced item (freeing its chunk when that was the last and the item is
\* not linked), adds one to the new item's, touches no other item and no
\* other entry, and leaves the number of entries as it was.
C19_OneEntryPerKey ==
    /\ \A k \in Queued(writeq) :
         items[writeq[k]].used /\ items[writeq[k]].key = k
    /\ \A i \in ItemIds :
         (items[i].used /\ items[i].key \in Queued(writeq))
         => LET k == items[i].key
                prev == writeq[k]
                r == writer_enqueue(items, writeq, i)
                was == IF prev = i THEN items[i].refcount + 1
                       ELSE items[prev].refcount
            IN  /\ r.wq[k] = i
                /\ \A j \in Keys \ {k} : r.wq[j] = writeq[j]
                /\ Cardinality(Queued(r.wq)) = Cardinality(Queued(writeq))
                /\ IF was = 1 /\ ~items[prev].linked
                   THEN r.its[prev] = FreeChunk
                   ELSE r.its[prev] = [items[prev] EXCEPT !.refcount = was - 1]
                /\ prev # i => r.its[i] = [items[i] EXCEPT !.refcount = @ + 1]
                /\ \A j \in ItemIds \ {i, prev} : r.its[j] = items[j]

\* a key was enqueued twice before the worker took it: its one entry is the
\* item of the second store, and the item of the first, replaced in the store
\* and in the queue, has given its chunk back
C19_Witness ==
    \E k \in Keys :
        /\ wn[k] = 2
        /\ Queued(writeq) = {k}
        /\ items[writeq[k]].linked
        /\ Cardinality({i \in ItemIds : items[i].used /\ items[i].key = k}) = 1

\* C20: the write worker takes the queued key that was inserted first: a key
\* inserted before another, neither dequeued yet, is dequeued (and hence
\* upserted) before the other.
C20_FirstInsertedFirst ==
    [][(WriterDequeue /\ worder # <<>>)
       => items[writer'.id].key = Head(worder)]_vars

\* C21: the read worker takes the queued token that was inserted first: a
\* token enqueued before another, both still queued, has its durable fetch
\* and its resumption signal before the other's.
C21_ReadQueueFifo ==
    [][(ReaderDequeue /\ rorder # <<>>) => reader'.cookie = Head(rorder)]_vars

\* C22: with the write worker scheduled fairly and an upsert that always
\* returns, every key that has a pending write is eventually upserted by the
\* worker, the durable row then holding the value the worker took for it,
\* also while callers keep storing this key or other keys.
C22_EventualPersistence ==
    \A k \in Keys :
       (writeq[k] # NoItem)
       ~> (/\ writer.pc = "release" /\ writer.ups = 1
           /\ items[writer.id].key = k
           /\ sqlite3_column(db[k], 3) = writer.v)

\* C23: the write worker attempts the upsert of a dequeued item once:
\* whatever sqlite3_step returns, the worker has left the store of the item
\* after that one step and is about to release it.
C23_NoRetryLoop ==
    [][\A rc \in UpsertResults : WriterStore(rc) => writer'.pc = "release"]_vars

\* the references held on item i for the write queue: one for each queue
\* entry that is i, one if i is the item the worker has taken
QueueRefs(i) ==
    Cardinality({k \in Keys : writeq[k] = i})
    + (IF writer.pc # "idle" /\ writer.id = i THEN 1 ELSE 0)

\* the references callers hold on item i
CallerRefs(i) == Cardinality({c \in Cookies : held[c].st # "none" /\ held[c].id = i})

\* the references held on chunk i at the level of the lock steps: one for each
\* caller holding it, one for the write queue's entry, one for the worker's
\* dequeued item, one for an enqueue that has counted and not yet inserted
LockRefs(i) ==
    Cardinality({t \in Producers : lk.it[t] = i})
    + Cardinality({t \in Producers :
                     lk.it[t] = i
                     /\ lk.pc[t] \in {"enq_lock", "enq_rel_lock", "enq_rel",
                                      "enq_put"}})
    + (IF lk.wq = i THEN 1 ELSE 0)
    + (IF lk.it["writer"] = i THEN 1 ELSE 0)

\* C24: the references on an item are those of the callers holding it and
\* one for each place it has in the write queue or with the worker: an
\* enqueue adds exactly one, and an entry that is superseded, or dequeued and
\* persisted, gives exactly that one back; a queued item and the item being
\* persisted therefore have a count of at least one.
C24_QueueReferenceBalance ==
    /\ \A t \in Producers :
         lk.it[t] # NoItem /\ lk.it[t] # Chunk("reader")
         => lk.ref[lk.it[t]] = LockRefs(lk.it[t])
    /\ lk.wq # NoItem => lk.ref[lk.wq] >= 1
    /\ lk.it["writer"] # NoItem => lk.ref[lk.it["writer"]] >= 1

\* C25: the read worker signals SUCCESS for a dequeued request exactly when
\* its fetch found a row of the key; when the fetch found no row or failed,
\* it signals KEY_ENOENT and has allocated no item for the key.
C25_ReadThroughOutcome ==
    /\ [](reader.pc = "notify" => (reader.success <=> reader.found))
    /\ [][(ReaderRead /\ ~reader'.found)
          => reader'.pc = "notify" /\ ~reader'.success /\ items' = items]_vars

\* the references the read worker and the warm-up loader hold on item i: the
\* one createItem's allocation gave them, until they have finished the record
WorkerRefs(i) ==
    (IF reader.pc = "store" /\ reader.id = i THEN 1 ELSE 0)
    + (IF warm.pc = "store" /\ warm.id = i THEN 1 ELSE 0)

\* C29: once the read worker or the warm-up loader has finished a record, no
\* reference of theirs is left on the item they allocated: an item whose ADD
\* succeeded is linked and carries only the references of callers holding it
\* and of the write queue, and an item whose ADD failed has given its chunk
\* back.
C29_NoDanglingReference ==
    \A i \in ItemIds :
       items[i].used
       => items[i].refcount = QueueRefs(i) + CallerRefs(i) + WorkerRefs(i)

\* C30: a resumption signal goes only to a token whose outstanding get
\* returned EWOULDBLOCK, and a delete never adds an entry to the read queue
\* (so it never causes a signal).
C30_SignalOnlyForBlockedGet ==
    /\ [][ReaderNotify => resume[reader.cookie].status = "EWOULDBLOCK"]_vars
    /\ [][\A c \in Cookies, k \in Keys, cas \in 0..(casid + 1) :
            Delete(c, k, cas) => readq' = readq]_vars

\* C26: neither worker holds its queue mutex while it is in the upsert or the
\* fetch, while it releases or materializes an item, or while it sends the
\* resumption signal; a producer can take the queue mutex meanwhile.
C26_NoIoUnderQueueLock ==
    /\ lk.pc["writer"] \in {"upsert", "wrel_lock", "wrel"}
       => lk.wmutex # "writer"
    /\ lk.pc["reader"] \in {"fetch", "ralloc_lock", "ralloc", "radd_lock",
                             "radd", "notify"}
       => lk.rmutex # "reader"

\* a caller holds the write queue's mutex while the worker is in its upsert
C26_Witness ==
    /\ lk.pc["writer"] = "upsert"
    /\ lk.wmutex \in Producers

\* C27: every change of an item's reference count is made by the thread that
\* holds cache_lock, inside its critical section; the reference an enqueue
\* takes is counted under that lock.
C27_RefcountUnderCacheLock ==
    [][\A i \in Chunks :
         lk'.ref[i] # lk.ref[i] => lk.cache # "free" /\ lk'.cache = "free"]_vars

\* the positions at which a thread is inside lock() of a queue mutex or inside
\* pthread_cond_wait
QueueWaits == {"enq_lock", "rq_lock", "lock", "wait"}

\* C28: the only nested acquisition is the write queue's mutex, then
\* cache_lock (an enqueue releasing the entry it replaces); no thread waits
\* for a queue mutex while it holds cache_lock; the workers hold no mutex
\* while they wait for cache_lock or release an item; what a waiting thread
\* waits for is held by a thread that is not itself waiting, or that waits
\* for cache_lock held by a running thread.
C28_LockHierarchy ==
    \A t \in LockThreads :
       /\ lk.pc[t] \in QueueWaits => lk.cache # t
       /\ ~(lk.wmutex = t /\ lk.rmutex = t)
       /\ (lk.wmutex = t \/ lk.rmutex = t)
          /\ (lk.cache = t \/ lk.pc[t] \in CacheWaits)
          => t \in Producers /\ lk.wmutex = t
             /\ lk.pc[t] \in {"enq_rel_lock", "enq_rel"}
       /\ lk.cache = t => lk.pc[t] \notin CacheWaits \cup QueueWaits
       /\ lk.wmutex = t => lk.pc[t] \in {"check", "enq_rel_lock", "enq_rel",
                                         "enq_put"}
       /\ lk.rmutex = t => lk.pc[t] \in {"check", "rq_put"}

\* an enqueue that replaces an entry holds the write queue's mutex and
\* cache_lock together, while the write worker wants the mutex back and the
\* read worker waits for cache_lock
C28_Witness ==
    \E t \in Producers :
       /\ lk.wmutex = t /\ lk.cache = t /\ lk.pc[t] = "enq_rel"
       /\ lk.pc["writer"] \in QueueWaits
       /\ lk.pc["reader"] \in CacheWaits

\* C31: a delete leaves the durable table and the write queue as they are and
\* the queued item of the key alive with its value, so that the worker still
\* persists it; after the delete the key is not in memory and a get of it
\* returns EWOULDBLOCK and hands the key to the read worker.
C31_DeleteCacheOnly ==
    /\ [][\A c \in Cookies, k \in Keys, cas \in {0, casid} :
            Delete(c, k, cas)
            => /\ db' = db
               /\ writeq' = writeq
               /\ writeq[k] # NoItem
                  => items'[writeq[k]].used
                     /\ items'[writeq[k]].key = k
                     /\ items'[writeq[k]].val = items[writeq[k]].val
               /\ assoc_find(items', k) = NoItem
               /\ \A d \in Cookies :
                    LET g == persistent_get(items', readq', d, k)
                    IN  g.res = "EWOULDBLOCK" /\ g.rq[d] = k]_vars
    /\ [](writer.pc = "store"
          => items[writer.id].used /\ items[writer.id].val = writer.v)

\* the worker has persisted an item that a delete unlinked while it was
\* queued, and a get of the key after the delete was answered EWOULDBLOCK
C31_Witness ==
    /\ writer.pc = "release" /\ writer.ups = 1
    /\ ~items[writer.id].linked
    /\ assoc_find(items, items[writer.id].key) = NoItem
    /\ db[items[writer.id].key] = RowOf(items[writer.id])
    /\ \E c \in Cookies :
         resume[c] = [status |-> "EWOULDBLOCK", key |-> items[writer.id].key]

\* C32: arithmetic without create on a key that is not in memory returns
\* KEY_ENOENT and changes neither the items, nor the read queue, nor the
\* write queue, nor the durable table.
C32_ArithmeticMiss ==
    [][\A c \in Cookies :
         (ArithLookup(c) /\ assoc_find(items, arith[c].key) = NoItem
            /\ ~arith[c].create)
         => /\ arith'[c].pc = "done"
            /\ arith'[c].res = "KEY_ENOENT"
            /\ items' = items
            /\ readq' = readq
            /\ writeq' = writeq
            /\ db' = db]_vars

\* an arithmetic without create has returned KEY_ENOENT for a key that has a
\* row in the durable table and none in memory
C32_Witness ==
    \E c \in Cookies :
       /\ arith[c].pc = "done" /\ arith[c].res = "KEY_ENOENT"
       /\ ~arith[c].create
       /\ db[arith[c].key] # NoRow
       /\ assoc_find(items, arith[c].key) = NoItem

\* C33: when the ADD of the initial value finds the key linked by a
\* concurrent store, the arithmetic goes back to the lookup (and so applies
\* the delta to that value); it never returns result = initial together with
\* a result code that is not SUCCESS.
C33_ArithmeticCreateRace ==
    [][\A c \in Cookies :
         (ArithCreate(c) /\ assoc_find(items, arith[c].key) # NoItem
            /\ (FreeIds(items) # {} \/ Evictable(items) # {}))
         => /\ arith'[c].pc = "lookup"
            /\ ~(arith'[c].res # "SUCCESS"
                 /\ arith'[c].result = arith[c].initial)]_vars

C35_WarmupTerminates ==
    /\ [][warm.pc = "done" => warm'.pc = "done"]_vars
    /\ [][warm'.cur >= warm.cur]_vars
    /\ [][\A rc \in {"ROW", "ERROR"} :
            WarmRead(rc)
            => IF rc = "ERROR" \/ ScanLeft = {}
               THEN warm'.pc = "done"
               ELSE /\ warm'.pc \in {"scan", "store"}
                    /\ warm'.cur = MinOf(ScanLeft) + 1
                    /\ warm'.pc = "store" => items'[warm'.id].key = MinOf(ScanLeft)]_vars
    /\ [][WarmStore => warm'.pc = "scan" /\ warm'.cur = warm.cur]_vars
    /\ (warm.pc # "done" ~> warm.pc = "done")

\* the allocation for the last row has failed and the loader is still
\* scanning
C35_Witness ==
    /\ warm.pc = "scan"
    /\ ~warm.ok
    /\ warm.cur = 3
    /\ ScanLeft = {}

\* ------------------------------------------------------------- STL engine: Item
\* Item::Item: cas(0); the value is what the caller writes into the buffer of
\* nbytes bytes, its line terminator included
Item(k, v, f, e) == [key |-> k, value |-> v, flags |-> f, exptime |-> e, cas |-> 0]

\* Item::clone: new Item(*this), every field copied
Item_clone(it) ==
    [key |-> it.key, value |-> it.value, flags |-> it.flags,
     exptime |-> it.exptime, cas |-> it.cas]

\* Item::setCas
Item_setCas(it, cas) == [it EXCEPT !.cas = cas]

\* std::string::resize(n): cut to n bytes, or padded with NUL bytes
resize(v, n) ==
    IF n <= Len(v) THEN SubSeq(v, 1, n)
    ELSE v \o [j \in 1..(n - Len(v)) |-> "\\0"]

\* Item::append: other's value without its last two bytes, then my value
Item_append(it, other) ==
    [it EXCEPT !.value = resize(other.value, Len(other.value) - 2) \o it.value]

\* Item::prepend: my value without its last two bytes, then other's value
Item_prepend(it, other) ==
    [it EXCEPT !.value = resize(it.value, Len(it.value) - 2) \o other.value]

\* operator new: a cell of the heap that holds no Item
NewObject(heap) == CHOOSE o \in Objects : heap[o] = Deleted /\ \A p \in Objects : heap[p] = Deleted => o <= p

\* the values a caller writes into an allocated Item
StlVals == {v \o CRLF : v \in Vals}

\* ------------------------------------------------------------- STL engine: calls
\* STLEngine::Allocate
STLEngine_Allocate(s, c, k, v, f, e) ==
    LET o == NewObject(s.heap)
    IN [s EXCEPT !.heap[o] = Item(k, v, f, e),
                 !.held[c] = o,
                 !.last = [op |-> "allocate", ret |-> "SUCCESS", key |-> k]]

\* stl_item_set_cas
stl_item_set_cas(s, c, cas) ==
    [s EXCEPT !.heap[s.held[c]] = Item_setCas(@, cas),
              !.last = [op |-> "set_cas", ret |-> "none", key |-> s.heap[s.held[c]].key]]

\* STLEngine::Release: delete the caller's Item
STLEngine_Release(s, c) ==
    [s EXCEPT !.heap[s.held[c]] = Deleted,
              !.held[c] = NoObject,
              !.last = [op |-> "release", ret |-> "none", key |-> s.heap[s.held[c]].key]]

\* STLEngine::Get: a clone of the cached Item, or NULL
STLEngine_Get(s, c, k) ==
    IF s.cache[k] # NoObject
    THEN LET o == NewObject(s.heap)
         IN [s EXCEPT !.heap[o] = Item_clone(s.heap[s.cache[k]]),
                      !.held[c] = o,
                      !.last = [op |-> "get", ret |-> "SUCCESS", key |-> k]]
    ELSE [s EXCEPT !.held[c] = NoObject,
                   !.last = [op |-> "get", ret |-> "KEY_ENOENT", key |-> k]]

\* STLEngine::Store without the clone: the caller's Item itself enters the map
STLEngine_Store_noclone(s, c, operation) ==
    LET me == s.held[c]
        it == s.heap[me]
        k == it.key
        iter == s.cache[k]
        Fail(r) == [s EXCEPT !.last = [op |-> "store", ret |-> r, key |-> k]]
    IN IF iter = NoObject
       THEN IF operation \in {"REPLACE", "APPEND", "PREPEND"}
            THEN Fail("KEY_ENOENT")
            ELSE [s EXCEPT !.cache[k] = me,
                           !.last = [op |-> "store", ret |-> "SUCCESS", key |-> k]]
       ELSE IF operation = "ADD"
            THEN Fail("NOT_STORED")
            ELSE IF it.cas # 0 /\ it.cas # s.heap[iter].cas
            THEN Fail("KEY_EEXISTS")
            ELSE LET mine == CASE operation = "APPEND" -> Item_append(it, s.heap[iter])
                               [] operation = "PREPEND" -> Item_prepend(it, s.heap[iter])
                               [] OTHER -> it
                     h1 == [s.heap EXCEPT ![me] = mine, ![iter] = Deleted]
                 IN [s EXCEPT !.heap = h1,
                              !.cache[k] = me,
                              !.last = [op |-> "store", ret |-> "SUCCESS", key |-> k]]

\* STLEngine::Store
STLEngine_Store(s, c, operation) ==
    LET me == s.held[c]
        it == s.heap[me]
        k == it.key
        iter == s.cache[k]
        Fail(r) == [s EXCEPT !.last = [op |-> "store", ret |-> r, key |-> k]]
    IN IF iter = NoObject
       THEN IF operation \in {"REPLACE", "APPEND", "PREPEND"}
            THEN Fail("KEY_ENOENT")
            ELSE LET o == NewObject(s.heap)
                 IN [s EXCEPT !.heap[o] = Item_clone(it),
                              !.cache[k] = o,
                              !.last = [op |-> "store", ret |-> "SUCCESS", key |-> k]]
       ELSE IF operation = "ADD"
            THEN Fail("NOT_STORED")
            ELSE IF it.cas # 0 /\ it.cas # s.heap[iter].cas
            THEN Fail("KEY_EEXISTS")
            ELSE LET mine == CASE operation = "APPEND" -> Item_append(it, s.heap[iter])
                               [] operation = "PREPEND" -> Item_prepend(it, s.heap[iter])
                               [] OTHER -> it
                     h1 == [s.heap EXCEPT ![me] = mine, ![iter] = Deleted]
                     o == NewObject(h1)
                 IN [s EXCEPT !.heap = [h1 EXCEPT ![o] = Item_clone(mine)],
                              !.cache[k] = o,
                              !.last = [op |-> "store", ret |-> "SUCCESS", key |-> k]]

\* STLEngine::Remove
STLEngine_Remove(s, k, cas) ==
    LET iter == s.cache[k]
    IN IF iter # NoObject
       THEN IF cas = s.heap[iter].cas
            THEN [s EXCEPT !.heap[iter] = Deleted,
                           !.cache[k] = NoObject,
                           !.last = [op |-> "remove", ret |-> "SUCCESS", key |-> k]]
            ELSE [s EXCEPT !.last = [op |-> "remove", ret |-> "KEY_EEXISTS", key |-> k]]
       ELSE [s EXCEPT !.last = [op |-> "remove", ret |-> "KEY_ENOENT", key |-> k]]

\* STLEngine::Flush that never clears the map
STLEngine_Flush_noclear(s, when) ==
    IF when # 0
    THEN [s EXCEPT !.last = [op |-> "flush", ret |-> "ENOTSUP", key |-> NoKey]]
    ELSE [s EXCEPT !.last = [op |-> "flush", ret |-> "SUCCESS", key |-> NoKey]]

\* STLEngine::Flush: cache.clear() empties the map; the Items it pointed to
\* are not deleted, and with no pointer to them left they take no further part
STLEngine_Flush(s, when) ==
    IF when # 0
    THEN [s EXCEPT !.last = [op |-> "flush", ret |-> "ENOTSUP", key |-> NoKey]]
    ELSE [s EXCEPT !.heap = [o \in Objects |->
                                IF \E k \in Keys : s.cache[k] = o THEN Deleted ELSE s.heap[o]],
                   !.cache = [k \in Keys |-> NoObject],
                   !.last = [op |-> "flush", ret |-> "SUCCESS", key |-> NoKey]]

\* ------------------------------------------------------------- STL engine: steps
\* the persistent engine is not loaded beside the STL engine
StlFrame == UNCHANGED <<engine, lk>>

\* one more call into the engine, with the state it leaves
StlCall(s) ==
    /\ stl.calls < MaxStlCalls
    /\ stl' = [s EXCEPT !.calls = @ + 1]
    /\ StlFrame

StlAllocate(c, k, v) ==
    /\ stl.held[c] = NoObject
    /\ StlCall(STLEngine_Allocate(stl, c, k, v, 1, 2))

StlSetCas(c, cas) ==
    /\ stl.held[c] # NoObject
    /\ StlCall(stl_item_set_cas(stl, c, cas))

StlRelease(c) ==
    /\ stl.held[c] # NoObject
    /\ StlCall(STLEngine_Release(stl, c))

StlGet(c, k) ==
    /\ stl.held[c] = NoObject
    /\ StlCall(STLEngine_Get(stl, c, k))

\* the host hands over values of at most MaxValue data bytes
StlFits(c, operation) ==
    LET it == stl.heap[stl.held[c]]
    IN operation \in {"APPEND", "PREPEND"} /\ stl.cache[it.key] # NoObject
         => Len(it.value) + Len(stl.heap[stl.cache[it.key]].value) - 4 <= MaxValue

StlStore(c, operation) ==
    /\ stl.held[c] # NoObject
    /\ StlFits(c, operation)
    /\ StlCall(STLEngine_Store(stl, c, operation))

StlRemove(k, cas) ==
    /\ StlCall(STLEngine_Remove(stl, k, cas))

StlFlush(when) ==
    /\ StlCall(STLEngine_Flush(stl, when))

\* the CAS ids and the times a caller passes
RemoveCas == {0, 1, 2}
FlushWhen == {0, 1}

StlInit ==
    /\ Started
    /\ use_cas = TRUE
    /\ db = InitDb
    /\ warm = WarmOff
    /\ start = Running(warm)
    /\ quota = NoQuota

StlNext ==
    \/ \E c \in Cookies, k \in Keys, v \in StlVals : StlAllocate(c, k, v)
    \/ \E c \in Cookies, cas \in CasVals : StlSetCas(c, cas)
    \/ \E c \in Cookies : StlRelease(c)
    \/ \E c \in Cookies, k \in Keys : StlGet(c, k)
    \/ \E c \in Cookies, operation \in StoreOps : StlStore(c, operation)
    \/ \E k \in Keys, cas \in RemoveCas : StlRemove(k, cas)
    \/ \E when \in FlushWhen : StlFlush(when)

StlSpec == StlInit /\ [][StlNext]_vars

\* what a lookup of every key finds in the cache
StlView(s) ==
    [k \in Keys |-> IF s.cache[k] = NoObject THEN Deleted ELSE s.heap[s.cache[k]]]

\* C36: STLEngine::Store on an existing key with ADD returns NOT_STORED, on
\* an absent key with REPLACE, APPEND or PREPEND returns KEY_ENOENT, and on an
\* existing key with another operation and a nonzero item CAS different from
\* the stored CAS returns KEY_EEXISTS; a store that does not succeed leaves
\* the cache as it was; a store that succeeds leaves one entry for the key,
\* an Item of its own equal to the caller's, and the other keys as they were;
\* releasing the caller's Item changes nothing a lookup finds.
C36_StoreOutcome ==
    [][\A c \in Cookies :
        /\ \A operation \in StoreOps :
             StlStore(c, operation) =>
               LET it == stl.heap[stl.held[c]]
                   k == it.key
                   present == stl.cache[k] # NoObject
                   r == stl'.last.ret
               IN /\ present /\ operation = "ADD" => r = "NOT_STORED"
                  /\ ~present /\ operation \in {"REPLACE", "APPEND", "PREPEND"}
                       => r = "KEY_ENOENT"
                  /\ /\ present
                     /\ operation # "ADD"
                     /\ it.cas # 0
                     /\ it.cas # stl.heap[stl.cache[k]].cas
                     => r = "KEY_EEXISTS"
                  /\ r \in {"SUCCESS", "NOT_STORED", "KEY_ENOENT", "KEY_EEXISTS"}
                  /\ r # "SUCCESS" => /\ stl'.cache = stl.cache
                                      /\ StlView(stl') = StlView(stl)
                  /\ r = "SUCCESS" =>
                       /\ stl'.cache[k] # NoObject
                       /\ stl'.cache[k] # stl'.held[c]
                       /\ stl'.held[c] = stl.held[c]
                       /\ StlView(stl')[k] = stl'.heap[stl'.held[c]]
                       /\ StlView(stl')[k].key = k
                       /\ \A j \in Keys \ {k} : StlView(stl')[j] = StlView(stl)[j]
        /\ StlRelease(c) => /\ StlView(stl') = StlView(stl)
                            /\ stl'.cache = stl.cache
                            /\ \A k \in Keys : stl.cache[k] # NoObject
                                                 => StlView(stl')[k] # Deleted
      ]_vars

\* a caller has released its Item after an APPEND of it was stored, and the
\* cache still holds the joined value
C36_Witness ==
    /\ stl.last.op = "release"
    /\ stl.last.key = 1
    /\ stl.cache[1] # NoObject
    /\ stl.heap[stl.cache[1]].value = <<"a", "b">> \o CRLF
    /\ \A c \in Cookies : stl.held[c] = NoObject

\* C37: STLEngine::Remove of an absent key returns KEY_ENOENT; of a present
\* key it removes the entry and returns SUCCESS when the CAS passed equals the
\* stored CAS or is 0, and otherwise returns KEY_EEXISTS and leaves the cache
\* as it was.
C37_RemoveByCas ==
    [][\A k \in Keys, cas \in RemoveCas :
        StlRemove(k, cas) =>
          LET present == stl.cache[k] # NoObject
              r == stl'.last.ret
          IN /\ ~present => r = "KEY_ENOENT" /\ StlView(stl') = StlView(stl)
             /\ present /\ (cas = 0 \/ cas = stl.heap[stl.cache[k]].cas)
                  => /\ r = "SUCCESS"
                     /\ stl'.cache[k] = NoObject
                     /\ \A j \in Keys \ {k} : StlView(stl')[j] = StlView(stl)[j]
             /\ present /\ cas # 0 /\ cas # stl.heap[stl.cache[k]].cas
                  => /\ r = "KEY_EEXISTS"
                     /\ stl'.cache = stl.cache
                     /\ StlView(stl') = StlView(stl)
      ]_vars

\* C38: STLEngine::Flush with when = 0 returns SUCCESS and leaves the cache
\* empty, so that a Get of any key by any caller returns KEY_ENOENT and hands
\* out no Item; with when # 0 it returns ENOTSUP and leaves the cache as it
\* was.
C38_Flush ==
    [][\A when \in FlushWhen :
        StlFlush(when) =>
          IF when = 0
          THEN /\ stl'.last.ret = "SUCCESS"
               /\ \A k \in Keys : stl'.cache[k] = NoObject
               /\ \A c \in Cookies, k \in Keys :
                    /\ STLEngine_Get(stl', c, k).last.ret = "KEY_ENOENT"
                    /\ STLEngine_Get(stl', c, k).held[c] = NoObject
               /\ stl'.held = stl.held
               /\ \A c \in Cookies : stl.held[c] # NoObject
                                       => stl'.heap[stl.held[c]] = stl.heap[stl.held[c]]
          ELSE /\ stl'.last.ret = "ENOTSUP"
               /\ stl'.cache = stl.cache
               /\ stl'.heap = stl.heap
               /\ stl'.held = stl.held
      ]_vars

\* Flush(0) has just emptied the cache after at least four other calls,
\* while a caller holds an Item
C38_Witness ==
    /\ stl.last.op = "flush"
    /\ stl.last.ret = "SUCCESS"
    /\ \A k \in Keys : stl.cache[k] = NoObject
    /\ \E c \in Cookies : stl.held[c] # NoObject
    /\ stl.calls >= 5

====
